---- MODULE Spec2Model ----
(***************************************************************************)
(* A model of the swarm orchestration core: MetaLearningCore               *)
(* (src/src/core/meta_learning.py), SwarmController                        *)
(* (src/src/core/swarm_controller.py) and PatternDiscoveryEngine           *)
(* (src/src/core/pattern_discovery.py).                                    *)
(*                                                                         *)
(* Python floats are IEEE-754 binary64.  Money and ratios are therefore    *)
(* modelled as binary64 values, with round-to-nearest-even products and    *)
(* sums, so that 0.7*p is what the interpreter computes and not the real   *)
(* number seven tenths of p.                                               *)
(***************************************************************************)
EXTENDS Integers, Sequences, FiniteSets, Bags, TLC

(***************************************************************************)
(* binary64 arithmetic.  A finite value is [sgn, e, m]: sgn in {-1,0,1},   *)
(* m the 53 significand bits (most significant first, leading bit 1) and   *)
(* the value is sgn * m * 2^(e-52).  Zero is sgn = 0.  Only normal numbers *)
(* occur in the model (no subnormal, infinity or NaN).                     *)
(***************************************************************************)
\* 52 stored significand bits and the implicit leading one
MantBits == 52 + 1

DZero == [sgn |-> 0, e |-> 0, m |-> [i \in 1..MantBits |-> 0]]

\* the value written 0x1.<13 hex digits>p<e> by float.hex()
DHex(sgn, e, hs) ==
    [sgn |-> sgn, e |-> e,
     m   |-> <<1>> \o [i \in 1..(4 * Len(hs)) |->
                          (hs[((i - 1) \div 4) + 1] \div (2 ^ (3 - ((i - 1) % 4)))) % 2]]

\* a + b of two bit strings, one bit longer than the longer of the two:
\* the bits are added from the least significant one, in chunks, each
\* chunk handing its carry to the next
AddBits(a, b) ==
    LET n == IF Len(a) > Len(b) THEN Len(a) ELSE Len(b)
        \* bit of weight 2^k, k = 0 the least significant
        BitAt(s, k) == IF k >= Len(s) THEN 0 ELSE s[Len(s) - k]
        RECURSIVE Sum(_, _, _)
        \* the carry out and the sum bits of weights k .. stop - 1
        Sum(k, stop, carry) ==
            IF k = stop THEN <<carry>>
            ELSE LET t == BitAt(a, k) + BitAt(b, k) + carry
                 IN  IF t >= 2 THEN Sum(k + 1, stop, 1) \o <<t - 2>>
                     ELSE Sum(k + 1, stop, 0) \o <<t>>
        RECURSIVE Chunks(_, _)
        Chunks(k, carry) ==
            IF k = n THEN <<carry>>
            ELSE LET part == Sum(k, IF k + 8 < n THEN k + 8 ELSE n, carry)
                 IN  IF part[1] = 1
                     THEN Chunks(k + Len(part) - 1, 1) \o Tail(part)
                     ELSE Chunks(k + Len(part) - 1, 0) \o Tail(part)
    IN  Chunks(0, 0)

\* a - b of two bit strings of equal length with a >= b, in the same way
SubBits(a, b) ==
    LET n == Len(a)
        RECURSIVE Difference(_, _, _)
        \* the borrow out and the difference bits of weights k .. stop - 1
        Difference(k, stop, borrow) ==
            IF k = stop THEN <<borrow>>
            ELSE LET t == a[n - k] - b[n - k] - borrow
                 IN  IF t < 0 THEN Difference(k + 1, stop, 1) \o <<t + 2>>
                     ELSE Difference(k + 1, stop, 0) \o <<t>>
        RECURSIVE Chunks(_, _)
        Chunks(k, borrow) ==
            IF k = n THEN << >>
            ELSE LET part == Difference(k, IF k + 8 < n THEN k + 8 ELSE n,
                                        borrow)
                 IN  IF part[1] = 1
                     THEN Chunks(k + Len(part) - 1, 1) \o Tail(part)
                     ELSE Chunks(k + Len(part) - 1, 0) \o Tail(part)
    IN  Chunks(0, 0)

\* a * b of two bit strings, Len(a) + Len(b) bits long.  The product goes
\* through limbs of LimbBits bits, least significant limb first, so that
\* every intermediate number stays far below 2^31.
MulBits(a, b) ==
    LET LimbBits == 12
        BitAt(s, k) == IF k >= Len(s) THEN 0 ELSE s[Len(s) - k]
        RECURSIVE LimbValue(_, _, _)
        LimbValue(s, j, t) ==
            IF t = LimbBits THEN 0
            ELSE BitAt(s, LimbBits * j + t) * (2 ^ t) + LimbValue(s, j, t + 1)
        ToLimbs(s) ==
            [j \in 1..((Len(s) + LimbBits - 1) \div LimbBits) |->
                LimbValue(s, j - 1, 0)]
        A == ToLimbs(a)
        B == ToLimbs(b)
        LimbAt(X, i) == IF i < 0 \/ i >= Len(X) THEN 0 ELSE X[i + 1]
        RECURSIVE MulColumn(_, _)
        MulColumn(k, i) ==
            IF i >= Len(A) THEN 0
            ELSE LimbAt(A, i) * LimbAt(B, k - i) + MulColumn(k, i + 1)
        RECURSIVE CarryLimbs(_, _)
        \* propagate carries through the column sums
        CarryLimbs(k, carry) ==
            IF k > Len(A) + Len(B) THEN << >>
            ELSE LET t == MulColumn(k - 1, 0) + carry
                 IN  <<t % (2 ^ LimbBits)>>
                     \o CarryLimbs(k + 1, t \div (2 ^ LimbBits))
        P     == CarryLimbs(1, 0)
        nbits == Len(a) + Len(b)
    IN  [i \in 1..nbits |->
            (LimbAt(P, (nbits - i) \div LimbBits)
                \div (2 ^ ((nbits - i) % LimbBits))) % 2]

\* lexicographic order of two bit strings of equal length
BitsLess(a, b) ==
    \E i \in 1..Len(a) :
        /\ a[i] < b[i]
        /\ \A j \in 1..(i - 1) : a[j] = b[j]

\* round-to-nearest, ties-to-even, of the exact value bits * 2^w
RoundBits(sgn, bits, w) ==
    LET \* the bit string without its leading zeros
        s == IF \A i \in 1..Len(bits) : bits[i] = 0 THEN << >>
             ELSE SubSeq(bits,
                         CHOOSE i \in 1..Len(bits) :
                             bits[i] = 1 /\ \A j \in 1..(i - 1) : bits[j] = 0,
                         Len(bits))
        L      == Len(s)
        keep   == SubSeq(s, 1, MantBits)
        up     == /\ s[MantBits + 1] = 1
                  /\ \/ \E i \in (MantBits + 2)..L : s[i] = 1
                     \/ keep[MantBits] = 1
        inc    == AddBits(keep, <<1>>)
    IN  IF L = 0 THEN DZero
        ELSE IF L <= MantBits
        THEN [sgn |-> sgn, e |-> w + L - 1,
              m   |-> s \o [i \in 1..(MantBits - L) |-> 0]]
        ELSE IF ~up
        THEN [sgn |-> sgn, e |-> w + L - 1, m |-> keep]
        ELSE IF inc[1] = 1
        THEN [sgn |-> sgn, e |-> w + L, m |-> SubSeq(inc, 1, MantBits)]
        ELSE [sgn |-> sgn, e |-> w + L - 1, m |-> SubSeq(inc, 2, MantBits + 1)]

\* float(n) for an integer n of at most 31 bits: exact
DInt(n) ==
    LET a == IF n < 0 THEN 0 - n ELSE n
        L == CHOOSE k \in 1..31 : 2 ^ (k - 1) <= a /\ a \div 2 < 2 ^ (k - 1)
    IN  IF n = 0 THEN DZero
        ELSE [sgn |-> IF n < 0 THEN -1 ELSE 1, e |-> L - 1,
              m   |-> [i \in 1..MantBits |->
                          IF i <= L THEN (a \div (2 ^ (L - i))) % 2 ELSE 0]]

\* x * y
DMul(x, y) ==
    IF x.sgn = 0 \/ y.sgn = 0 THEN DZero
    ELSE RoundBits(x.sgn * y.sgn, MulBits(x.m, y.m),
                   (x.e - (MantBits - 1)) + (y.e - (MantBits - 1)))

\* x < y
DLess(x, y) ==
    LET MagLess(u, v) == u.e < v.e \/ (u.e = v.e /\ BitsLess(u.m, v.m))
    IN  IF x.sgn # y.sgn THEN x.sgn < y.sgn
        ELSE IF x.sgn = 0 THEN FALSE
        ELSE IF x.sgn = 1 THEN MagLess(x, y)
        ELSE MagLess(y, x)

DGeq(x, y) == ~DLess(x, y)

DGreater(x, y) == DLess(y, x)

\* min(x, y) of the interpreter: y if y < x else x
DMin(x, y) == IF DLess(y, x) THEN y ELSE x

\* max(x, y) of the interpreter: y if y > x else x
DMax(x, y) == IF DGreater(y, x) THEN y ELSE x

\* x + y
DPlus(x, y) ==
    LET \* |x| < |y|
        less  == x.e < y.e \/ (x.e = y.e /\ BitsLess(x.m, y.m))
        big   == IF less THEN y ELSE x
        small == IF less THEN x ELSE y
        pad   == [i \in 1..(big.e - small.e) |-> 0]
    IN  IF x.sgn = 0 THEN y
        ELSE IF y.sgn = 0 THEN x
        ELSE IF x.sgn # y.sgn /\ x.e = y.e /\ x.m = y.m THEN DZero
        ELSE RoundBits(big.sgn,
                       IF x.sgn = y.sgn
                       THEN AddBits(big.m \o pad, small.m)
                       ELSE SubBits(big.m \o pad, pad \o small.m),
                       small.e - (MantBits - 1))

\* x - y
DSub(x, y) == DPlus(x, [y EXCEPT !.sgn = 0 - y.sgn])

\* x / y for y # 0: the exact quotient of the significands to MantBits + 2
\* bits and a sticky bit, rounded once
DDiv(x, y) ==
    LET a    == <<0>> \o x.m
        b    == <<0>> \o y.m
        \* the next k quotient bits of rem * 2^k / b, most significant
        \* first, and the remainder left: restoring division of bit strings
        \* one bit longer than the significand
        RECURSIVE DivBits(_, _)
        DivBits(rem, k) ==
            IF k = 0 THEN [rem |-> rem, q |-> << >>]
            ELSE LET twice == Tail(rem) \o <<0>>
                     bit   == IF BitsLess(twice, b) THEN 0 ELSE 1
                     rest  == DivBits(IF bit = 0 THEN twice
                                      ELSE SubBits(twice, b), k - 1)
                 IN  [rem |-> rest.rem, q |-> <<bit>> \o rest.q]
        RECURSIVE Chunks(_, _)
        \* k quotient bits and a last bit telling whether a remainder is left
        Chunks(rem, k) ==
            IF k = 0
            THEN <<IF \E i \in 1..Len(rem) : rem[i] = 1 THEN 1 ELSE 0>>
            ELSE LET part == DivBits(rem, IF k > 8 THEN 8 ELSE k)
                 IN  part.q \o Chunks(part.rem, k - Len(part.q))
        lead == ~BitsLess(a, b)
    IN  IF x.sgn = 0 THEN DZero
        ELSE RoundBits(x.sgn * y.sgn,
                       <<IF lead THEN 1 ELSE 0>>
                           \o Chunks(IF lead THEN SubBits(a, b) ELSE a,
                                     MantBits + 2),
                       (x.e - y.e) - (MantBits + 2) - 1)

(***************************************************************************)
(* Program constants of MetaLearningCore.                                  *)
(***************************************************************************)
\* self.success_metrics: 10.0, 0.3, 0.7, 0.2 and 0.1
success_metrics ==
    [min_profit_threshold |-> DInt(10),
     min_roi_threshold    |-> DHex(1, -2, <<3, 3, 3, 3, 3, 3, 3, 3, 3, 3, 3, 3, 3>>),
     reinvestment_rate    |-> DHex(1, -1, <<6, 6, 6, 6, 6, 6, 6, 6, 6, 6, 6, 6, 6>>),
     hunter_allocation    |-> DHex(1, -3, <<9, 9, 9, 9, 9, 9, 9, 9, 9, 9, 9, 9, 10>>),
     owner_allocation     |-> DHex(1, -4, <<9, 9, 9, 9, 9, 9, 9, 9, 9, 9, 9, 9, 10>>)]

\* _get_minimum_spawn_cost returns 10.0
GetMinimumSpawnCost == DInt(10)

\* initial_swarms = 3 in _scale_successful_pattern
initial_swarms == 3

(***************************************************************************)
(* Bounds of the model.                                                    *)
(***************************************************************************)
\* largest number of entries of active_swarms
MaxSwarms == 4

\* largest number of lifecycle tasks alive at once
MaxTasks == 3

\* largest number of knowledge-graph entries
MaxTemplates == 4

\* polls of a test window (test_duration / 60 in the code)
MaxTestPolls == 2

\* largest whole-dollar profit of the allocation inputs
MaxProfit == 40

(***************************************************************************)
(* The pattern catalog of PatternDiscoveryEngine.__init__, in dict order.  *)
(***************************************************************************)
Patterns ==
    << [id |-> "ih_dropshipping_001", type |-> "ecommerce",
        method |-> "dropshipping",
        success_metrics |-> [min_profit |-> 500, min_roi |-> "0.3",
                             automation_level |-> "0.85"],
        implementation |-> [platform |-> "shopify",
                            traffic_source |-> "tiktok",
                            compute_needs |-> [cpu |-> "minimal",
                                               memory |-> "512MB",
                                               storage |-> "1GB"]]],
       [id |-> "ph_saas_001", type |-> "saas", method |-> "api_service",
        success_metrics |-> [min_profit |-> 800, min_roi |-> "0.4",
                             automation_level |-> "0.95"],
        implementation |-> [platform |-> "vercel",
                            traffic_source |-> "api_marketplace",
                            compute_needs |-> [cpu |-> "moderate",
                                               memory |-> "1GB",
                                               storage |-> "5GB"]]],
       [id |-> "gh_bot_001", type |-> "automation", method |-> "github_bot",
        success_metrics |-> [min_profit |-> 300, min_roi |-> "0.5",
                             automation_level |-> "0.98"],
        implementation |-> [platform |-> "github",
                            traffic_source |-> "organic",
                            compute_needs |-> [cpu |-> "minimal",
                                               memory |-> "256MB",
                                               storage |-> "100MB"]]] >>

(***************************************************************************)
(* _validate_pattern: a pattern is a dict, modelled as a function whose    *)
(* DOMAIN is its set of keys.  HasAll(d, keys) is all(k in d for k in      *)
(* keys); Get(d, k) is d.get(k, {}).                                       *)
(***************************************************************************)
EmptyDict == [k \in {} |-> 0]

HasAll(d, keys) == \A k \in keys : k \in DOMAIN d

Get(d, k) == IF k \in DOMAIN d THEN d[k] ELSE EmptyDict

\* d.get(k, 0)
GetNumber(d, k) == IF k \in DOMAIN d THEN d[k] ELSE DZero

\* values whose Python type the code depends on carry it as a tag: Str(s)
\* a str, Dict(d) a dict, None, and SetValue a set
Str(s) == [str |-> s]

Dict(d) == [dict |-> d]

None == [none |-> TRUE]

SetValue == [set |-> TRUE]

IsStr(v) == "str" \in DOMAIN v

IsDict(v) == "dict" \in DOMAIN v

ValidatePattern_NoComputeCheck(pattern) ==
    IF ~HasAll(pattern, {"id", "type", "method", "success_metrics",
                         "implementation"})
    THEN FALSE
    ELSE IF ~HasAll(Get(pattern, "success_metrics"),
                    {"min_profit", "min_roi", "automation_level"})
    THEN FALSE
    ELSE HasAll(Get(pattern, "implementation"),
                {"platform", "traffic_source", "compute_needs"})

ValidatePattern(pattern) ==
    IF ~HasAll(pattern, {"id", "type", "method", "success_metrics",
                         "implementation"})
    THEN FALSE
    ELSE IF ~HasAll(Get(pattern, "success_metrics"),
                    {"min_profit", "min_roi", "automation_level"})
    THEN FALSE
    ELSE IF ~HasAll(Get(pattern, "implementation"),
                    {"platform", "traffic_source", "compute_needs"})
    THEN FALSE
    ELSE HasAll(Get(Get(pattern, "implementation"), "compute_needs"),
                {"cpu", "memory", "storage"})

\* discover_patterns over a catalog given in dict order
RECURSIVE DiscoverPatterns(_)
DiscoverPatterns(cat) ==
    IF cat = << >> THEN << >>
    ELSE (IF ValidatePattern(Head(cat)) THEN <<Head(cat)>> ELSE << >>)
         \o DiscoverPatterns(Tail(cat))

(***************************************************************************)
(* Metrics.  _collect_swarm_metrics is the metrics source: the code        *)
(* returns a simulated snapshot (profit 15.0, roi 0.35) and, on failure,   *)
(* the zero snapshot.  The model lets a poll observe any snapshot of       *)
(* MetricSamples.  Only profit and roi are read by the lifecycle code.     *)
(***************************************************************************)
Metrics(profit, roi) == [profit |-> profit, roi |-> roi]

\* 'metrics': {'profit': 0, 'roi': 0, 'uptime': 0} of a new swarm
InitialMetrics == Metrics(DZero, DZero)

\* the snapshot returned by the except branch
FailureMetrics == Metrics(DZero, DZero)

\* profit 14.285714285714286 (0x1.c924924924925p+3), the least profit whose
\* product with 0.7 is 10.0, and roi 0.29
LowRoiMetrics ==
    Metrics(DHex(1, 3, <<12, 9, 2, 4, 9, 2, 4, 9, 2, 4, 9, 2, 5>>),
            DHex(1, -2, <<2, 8, 15, 5, 12, 2, 8, 15, 5, 12, 2, 8, 15>>))

MetricSamples ==
    LET \* the snapshot returned by the try branch: profit 15.0, roi 0.35
        SimulatedMetrics ==
            Metrics(DInt(15),
                    DHex(1, -2, <<6, 6, 6, 6, 6, 6, 6, 6, 6, 6, 6, 6, 6>>))
        \* profit 10.0, roi 0.3: both test thresholds met with equality
        ThresholdMetrics ==
            Metrics(DInt(10), success_metrics.min_roi_threshold)
    IN  {SimulatedMetrics, FailureMetrics, LowRoiMetrics, ThresholdMetrics}

CollectSwarmMetrics == MetricSamples

(***************************************************************************)
(* Resources.  A resource record is a dict; a component may carry 'cost'.  *)
(***************************************************************************)
\* _provision_test_resources
ProvisionTestResources ==
    [compute |-> [provider |-> "cloudflare_workers", tier |-> "free"],
     storage |-> [provider |-> "cloudflare_kv", tier |-> "free"]]

\* _provision_production_resources: the primary compute and storage of
\* _select_infrastructure, the network and the scaling block
ProvisionProductionResources ==
    [compute |-> [provider |-> "cloudflare_workers", tier |-> "free"],
     storage |-> [provider |-> "cloudflare_kv", tier |-> "free"],
     network |-> [cdn |-> "cloudflare"],
     scaling |-> [enabled |-> TRUE]]

\* d.get('cost', 0)
CostOf(d) == IF "cost" \in DOMAIN d THEN d["cost"] ELSE DZero

RecoverResources_ComputeOnly(swarm) ==
    CostOf(Get(Get(swarm, "resources"), "compute"))

\* _recover_resources: compute cost + storage cost
RecoverResources(swarm) ==
    DPlus(CostOf(Get(Get(swarm, "resources"), "compute")),
         CostOf(Get(Get(swarm, "resources"), "storage")))

(***************************************************************************)
(* The registries.  A dict is a function on its set of keys.               *)
(***************************************************************************)
Put(d, k, v) == [i \in DOMAIN d \cup {k} |-> IF i = k THEN v ELSE d[i]]

Del(d, k) == [i \in DOMAIN d \ {k} |-> d[i]]

Size(d) == Cardinality(DOMAIN d)

\* f"test_swarm_{n}", f"prod_swarm_{n}", f"spawn_swarm_{n}"
SwarmId(prefix, n) == <<prefix, n>>

NoId == <<"none", 0>>

Call(c, id, amount) == [c |-> c, id |-> id, amount |-> amount]

VARIABLES
    knowledge_graph,    \* MetaLearningCore.knowledge_graph, by template number
    active_swarms,      \* MetaLearningCore.active_swarms, by swarm id
    tasks,              \* bag of the ids driven by _manage_swarm_lifecycle tasks
    running,            \* the lifecycle task between its poll and its sunset check
    cyc,                \* position of run_discovery_cycle
    ev,                 \* the step just taken: operation, swarm id, metrics seen
    calls,              \* the calls that step made, in program order
    terminated,         \* history: ids that _sunset_swarm has removed so far
    failed_tests,       \* history: templates whose test window elapsed
    ctl_swarms,         \* SwarmController.active_swarms, by swarm id
    ctl_tasks,          \* bag of the ids driven by _manage_lifecycle tasks
    ctl_ev,             \* the SwarmController step just taken
    ctl_calls,          \* the calls that step made, in program order
    ctl_run,            \* position of SwarmController.run
    alloc,              \* an allocation of one profit: input and shares
    vin,                \* a catalog handed to discover_patterns
    vout,               \* what discover_patterns returned for it
    agent               \* a call of one agent function: argument and result

coreVars ==
    <<knowledge_graph, active_swarms, tasks, running, cyc, ev, calls>>

histVars == <<terminated, failed_tests>>

ctlVars == <<ctl_swarms, ctl_tasks, ctl_ev, ctl_calls, ctl_run>>

fnVars == <<alloc, vin, vout, agent>>

vars == <<coreVars, histVars, ctlVars, fnVars>>

NoTask == [id |-> NoId, metrics |-> InitialMetrics]

Event(op, id, m) == [op |-> op, id |-> id, metrics |-> m]

Cycle(pc, idx, template, swarm, polls) ==
    [pc |-> pc, idx |-> idx, template |-> template, swarm |-> swarm,
     polls |-> polls]

\* run_discovery_cycle is suspended (in a sleep) and other tasks may run
CycleSuspended == cyc.pc \in {"idle", "sleep"}

(***************************************************************************)
(* _find_related_patterns.  The test template_id != pattern.get('id')      *)
(* compares a key "swarm_template_<n>" with a pattern id and is always     *)
(* true for the catalog's ids.                                             *)
(***************************************************************************)
\* the patterns of test_find_related_patterns: the new pattern and the two
\* of the knowledge graph it is matched against
TestPatterns ==
    << [id |-> "test_001", type |-> "ecommerce", method |-> "dropshipping",
        implementation |-> [platform |-> "shopify"]],
       [id |-> "pattern_001", type |-> "ecommerce", method |-> "affiliate",
        implementation |-> [platform |-> "shopify"]],
       [id |-> "pattern_002", type |-> "ecommerce", method |-> "dropshipping",
        implementation |-> [platform |-> "woocommerce"]] >>

\* knowledge-graph entries hold their pattern; the model holds its id
PatternById(pid) ==
    CHOOSE q \in {Patterns[i] : i \in 1..Len(Patterns)}
                 \cup {TestPatterns[i] : i \in 1..Len(TestPatterns)} :
        q.id = pid

Edge(template_id, relationship, score) ==
    [id |-> template_id, relationship |-> relationship,
     similarity_score |-> score]

EdgesTo_Deduplicated(kg, t, pattern) ==
    LET other == PatternById(kg[t].pattern)
    IN  IF other.type = pattern.type
        THEN <<Edge(t, "same_type", "0.8")>>
        ELSE IF other.method = pattern.method
             THEN <<Edge(t, "same_method", "0.9")>>
             ELSE IF other.implementation.platform = pattern.implementation.platform
                  THEN <<Edge(t, "same_platform", "0.7")>>
                  ELSE << >>

EdgesTo(kg, t, pattern) ==
    LET other == PatternById(kg[t].pattern)
    IN  (IF other.type = pattern.type
         THEN <<Edge(t, "same_type", "0.8")>> ELSE << >>)
        \o (IF other.method = pattern.method
            THEN <<Edge(t, "same_method", "0.9")>> ELSE << >>)
        \o (IF other.implementation.platform = pattern.implementation.platform
            THEN <<Edge(t, "same_platform", "0.7")>> ELSE << >>)

RECURSIVE FindRelatedFrom(_, _, _)
FindRelatedFrom(kg, t, pattern) ==
    IF t \notin DOMAIN kg THEN << >>
    ELSE EdgesTo(kg, t, pattern) \o FindRelatedFrom(kg, t + 1, pattern)

FindRelatedPatterns_SeesItself(kg, pattern) ==
    FindRelatedFrom(kg, 0, pattern)
        \o <<Edge(Size(kg), "same_type", "0.8"), Edge(Size(kg), "same_method", "0.9"),
              Edge(Size(kg), "same_platform", "0.7")>>

FindRelatedPatterns(kg, pattern) == FindRelatedFrom(kg, 0, pattern)

\* _generate_swarm_template: the new entry under key len(knowledge_graph)
GenerateSwarmTemplate(kg, pattern) ==
    Put(kg, Size(kg),
        [pattern |-> pattern.id,
         template |-> Size(kg),
         performance_history |-> << >>,
         related_patterns |-> FindRelatedPatterns(kg, pattern)])

(***************************************************************************)
(* Swarm records.                                                          *)
(***************************************************************************)
TestSwarm(id, template) ==
    [id |-> id, template |-> template, status |-> "testing",
     metrics |-> InitialMetrics, resources |-> ProvisionTestResources]

ProductionSwarm(id, template) ==
    [id |-> id, template |-> template, status |-> "production",
     metrics |-> InitialMetrics, resources |-> ProvisionProductionResources]

SpawnedSwarm(id, template, budget) ==
    [id |-> id, template |-> template, status |-> "spawning",
     budget |-> budget, metrics |-> InitialMetrics,
     resources |-> ProvisionProductionResources]

\* swarm['metrics'] = metrics
WithMetrics(swarm, m) == [swarm EXCEPT !.metrics = m]

(***************************************************************************)
(* _sunset_swarm: recover, fund the hunters when something was recovered,  *)
(* delete the registry entry.  The result is the registry and the calls    *)
(* made, in order.                                                         *)
(***************************************************************************)
SunsetSwarm_KeepsEntry(reg, id) ==
    IF id \notin DOMAIN reg THEN [reg |-> reg, calls |-> << >>]
    ELSE [reg   |-> reg,
          calls |-> <<Call("recover", id, RecoverResources(reg[id]))>>]

SunsetSwarm(reg, id) ==
    IF id \notin DOMAIN reg THEN [reg |-> reg, calls |-> << >>]
    ELSE LET recovered == RecoverResources(reg[id])
         IN  [reg   |-> Del(reg, id),
              calls |-> <<Call("recover", id, recovered)>>
                        \o (IF DGreater(recovered, DZero)
                            THEN <<Call("fund", id, recovered)>>
                            ELSE << >>)
                        \o <<Call("del", id, DZero)>>]

(***************************************************************************)
(* The reinvestment block of _manage_swarm_lifecycle.                      *)
(***************************************************************************)
\* The profits a poll can report: those of MetricSamples and 1.0 .. MaxProfit
ProfitInputs ==
    {m.profit : m \in MetricSamples} \cup {DInt(n) : n \in 1..MaxProfit}

\* The three products, computed once for every profit of ProfitInputs
ShareTable ==
    {[profit       |-> p,
      reinvestment |-> DMul(p, success_metrics.reinvestment_rate),
      hunter       |-> DMul(p, success_metrics.hunter_allocation),
      owner        |-> DMul(p, success_metrics.owner_allocation)] : p \in ProfitInputs}

Shares(profit) == CHOOSE t \in ShareTable : t.profit = profit

\* reinvestment = metrics['profit'] * reinvestment_rate
Reinvestment(profit) == Shares(profit).reinvestment

\* hunter_budget = metrics['profit'] * hunter_allocation
HunterBudget(profit) == Shares(profit).hunter

\* owner_payout = metrics['profit'] * owner_allocation
OwnerPayout(profit) == Shares(profit).owner

ShouldSpawn_Strict(reinvestment) == DGreater(reinvestment, GetMinimumSpawnCost)

\* reinvestment >= await self._get_minimum_spawn_cost()
ShouldSpawn(reinvestment) == DGeq(reinvestment, GetMinimumSpawnCost)

\* metrics['roi'] < min_roi_threshold
ShouldSunset(m) == DLess(m.roi, success_metrics.min_roi_threshold)

TestPassed_ProfitOnly(m) == DGeq(m.profit, success_metrics.min_profit_threshold)

\* the success test of _monitor_test_swarm
TestPassed(m) ==
    DGeq(m.profit, success_metrics.min_profit_threshold) /\ DGeq(m.roi, success_metrics.min_roi_threshold)

\* the id _spawn_new_swarm gives: f"spawn_swarm_{len(self.active_swarms)}"
SpawnId(reg) == SwarmId("spawn_swarm", Size(reg))

\* _spawn_new_swarm: the registry with the new swarm
SpawnNewSwarm_Capped(reg, template, budget) ==
    IF Size(reg) >= initial_swarms THEN reg
    ELSE Put(reg, SpawnId(reg), SpawnedSwarm(SpawnId(reg), template, budget))

SpawnNewSwarm(reg, template, budget) ==
    Put(reg, SpawnId(reg), SpawnedSwarm(SpawnId(reg), template, budget))

\* _scale_successful_pattern: initial_swarms production swarms, each under
\* the id f"prod_swarm_{len(self.active_swarms)}" of its turn
RECURSIVE ScaleRegistry(_, _, _)
ScaleRegistry(reg, template, n) ==
    IF n = 0 THEN reg
    ELSE LET id == SwarmId("prod_swarm", Size(reg))
         IN  ScaleRegistry(Put(reg, id, ProductionSwarm(id, template)),
                           template, n - 1)

RECURSIVE ScaleIds(_, _, _)
ScaleIds(reg, template, n) ==
    IF n = 0 THEN << >>
    ELSE LET id == SwarmId("prod_swarm", Size(reg))
         IN  <<id>> \o ScaleIds(Put(reg, id, ProductionSwarm(id, template)),
                                template, n - 1)

RECURSIVE SeqToBag(_)
SeqToBag(q) ==
    IF q = << >> THEN EmptyBag
    ELSE SetToBag({Head(q)}) (+) SeqToBag(Tail(q))

(***************************************************************************)
(* MetaLearningCore: construction and the steps of run_discovery_cycle.    *)
(* A step runs from one suspension point (or call boundary) to the next;   *)
(* lifecycle tasks run only while the cycle is suspended in a sleep.       *)
(***************************************************************************)
CoreInit ==
    /\ knowledge_graph = EmptyDict
    /\ active_swarms = EmptyDict
    /\ tasks = EmptyBag
    /\ running = NoTask
    /\ cyc = Cycle("idle", 0, 0, NoId, 0)
    /\ ev = Event("init", NoId, InitialMetrics)
    /\ calls = << >>

Discovered == DiscoverPatterns(Patterns)

\* main(): the next run_discovery_cycle starts; patterns are discovered
StartCycle ==
    /\ cyc.pc = "idle"
    /\ running = NoTask
    /\ Size(knowledge_graph) < MaxTemplates
    /\ cyc' = Cycle("next", 1, 0, NoId, 0)
    /\ ev' = Event("cycle", NoId, InitialMetrics)
    /\ calls' = << >>
    /\ UNCHANGED <<knowledge_graph, active_swarms, tasks, running>>

\* the for loop is exhausted: back to the sleep of main()
EndCycle ==
    /\ cyc.pc = "next"
    /\ cyc.idx > Len(Discovered)
    /\ cyc' = Cycle("idle", 0, 0, NoId, 0)
    /\ ev' = Event("end_cycle", NoId, InitialMetrics)
    /\ calls' = << >>
    /\ UNCHANGED <<knowledge_graph, active_swarms, tasks, running>>

\* template = await self._generate_swarm_template(pattern)
GenerateTemplate ==
    /\ cyc.pc = "next"
    /\ cyc.idx <= Len(Discovered)
    /\ Size(knowledge_graph) < MaxTemplates
    /\ knowledge_graph' =
           GenerateSwarmTemplate(knowledge_graph, Discovered[cyc.idx])
    /\ cyc' = [cyc EXCEPT !.pc = "deploy", !.template = Size(knowledge_graph)]
    /\ ev' = Event("generate", NoId, InitialMetrics)
    /\ calls' = << >>
    /\ UNCHANGED <<active_swarms, tasks, running>>

\* test_swarm = await self._deploy_test_swarm(template), then the entry of
\* _monitor_test_swarm
DeployTestSwarm ==
    /\ cyc.pc = "deploy"
    /\ Size(active_swarms) + 1 + initial_swarms <= MaxSwarms
    /\ BagCardinality(tasks) + initial_swarms <= MaxTasks
    /\ LET id == SwarmId("test_swarm", Size(active_swarms))
       IN  /\ active_swarms' = Put(active_swarms, id, TestSwarm(id, cyc.template))
           /\ cyc' = [cyc EXCEPT !.pc = "monitor", !.swarm = id, !.polls = 0]
           /\ ev' = Event("deploy_test", id, InitialMetrics)
    /\ calls' = << >>
    /\ UNCHANGED <<knowledge_graph, tasks, running>>

\* one iteration of the while loop of _monitor_test_swarm: collect, store,
\* return True on success, else sleep 60 s
TestPoll ==
    /\ cyc.pc \in {"monitor", "sleep"}
    /\ running = NoTask
    /\ cyc.polls < MaxTestPolls
    /\ \E m \in CollectSwarmMetrics :
          /\ active_swarms' =
                 [active_swarms EXCEPT ![cyc.swarm] = WithMetrics(@, m)]
          /\ cyc' = [cyc EXCEPT !.pc = IF TestPassed(m) THEN "scale" ELSE "sleep",
                                !.polls = @ + 1]
          /\ ev' = Event("test_poll", cyc.swarm, m)
    /\ calls' = << >>
    /\ UNCHANGED <<knowledge_graph, tasks, running>>

\* the window has elapsed: _monitor_test_swarm returns False
TestTimeout ==
    /\ cyc.pc = "sleep"
    /\ running = NoTask
    /\ cyc.polls >= MaxTestPolls
    /\ cyc' = [cyc EXCEPT !.pc = "sunset"]
    /\ ev' = Event("test_timeout", cyc.swarm, active_swarms[cyc.swarm].metrics)
    /\ calls' = << >>
    /\ UNCHANGED <<knowledge_graph, active_swarms, tasks, running>>

\* if not success: await self._sunset_swarm(test_swarm['id']); continue
SunsetFailedTest ==
    /\ cyc.pc = "sunset"
    /\ LET r == SunsetSwarm(active_swarms, cyc.swarm)
       IN  /\ active_swarms' = r.reg
           /\ calls' = r.calls
    /\ cyc' = [cyc EXCEPT !.pc = "next", !.idx = @ + 1]
    /\ ev' = Event("sunset_test", cyc.swarm, active_swarms[cyc.swarm].metrics)
    /\ UNCHANGED <<knowledge_graph, tasks, running>>

\* await self._scale_successful_pattern(pattern, template)
ScaleSuccessfulPattern ==
    /\ cyc.pc = "scale"
    /\ active_swarms' = ScaleRegistry(active_swarms, cyc.template, initial_swarms)
    /\ tasks' = tasks (+) SeqToBag(ScaleIds(active_swarms, cyc.template,
                                            initial_swarms))
    /\ cyc' = [cyc EXCEPT !.pc = "next", !.idx = @ + 1]
    /\ ev' = Event("scale", cyc.swarm, active_swarms[cyc.swarm].metrics)
    /\ calls' = << >>
    /\ UNCHANGED <<knowledge_graph, running>>

(***************************************************************************)
(* _manage_swarm_lifecycle, one task per created production or spawned     *)
(* swarm.  An iteration is two steps: the poll with its reinvestment       *)
(* block, then the sunset check.  Nothing else runs in between.            *)
(***************************************************************************)
LifecycleExit_StillSunsets(id) ==
    /\ CycleSuspended
    /\ running = NoTask
    /\ BagIn(id, tasks)
    /\ id \notin DOMAIN active_swarms
    /\ tasks' = tasks (-) SetToBag({id})
    /\ ev' = Event("exit", id, InitialMetrics)
    /\ calls' = <<Call("del", id, DZero)>>
    /\ UNCHANGED <<knowledge_graph, active_swarms, running, cyc>>

\* swarm = self.active_swarms.get(swarm_id); if not swarm: break
LifecycleExit(id) ==
    /\ CycleSuspended
    /\ running = NoTask
    /\ BagIn(id, tasks)
    /\ id \notin DOMAIN active_swarms
    /\ tasks' = tasks (-) SetToBag({id})
    /\ ev' = Event("exit", id, InitialMetrics)
    /\ calls' = << >>
    /\ UNCHANGED <<knowledge_graph, active_swarms, running, cyc>>

FundMethodHunters_Raises(budget, fails) ==
    IF fails THEN "raised" ELSE "returned"

\* _fund_method_hunters: when its try body fails, its except logs the
\* failure and the call returns like one that succeeded
FundMethodHunters(budget, fails) == "returned"

\* _process_owner_payout: likewise
ProcessOwnerPayout(amount, fails) == "returned"

\* the reinvestment block for profit > 0, the calls of failed failing: the
\* registry, the calls made in order, and whether an exception left the
\* block
ReinvestBlock(reg, id, m, failed) ==
    LET Made(c, amount) ==
            <<Call(IF c \in failed THEN c \o "_failed" ELSE c, id, amount)>>
        Block(reinvestment, hunter_budget, owner_payout) ==
            LET spawn         == ShouldSpawn(reinvestment)
                fund_called   == DGreater(hunter_budget, DZero)
                fund_raised   ==
                    /\ fund_called
                    /\ FundMethodHunters(hunter_budget, "fund" \in failed) = "raised"
                payout_called == ~fund_raised /\ DGreater(owner_payout, DZero)
                payout_raised ==
                    /\ payout_called
                    /\ ProcessOwnerPayout(owner_payout, "payout" \in failed) = "raised"
            IN  [reg    |-> IF spawn
                            THEN SpawnNewSwarm(reg, reg[id].template, reinvestment)
                            ELSE reg,
                 calls  |-> (IF spawn
                             THEN <<Call("spawn", SpawnId(reg), reinvestment)>>
                             ELSE << >>)
                            \o (IF fund_called
                                THEN Made("fund", hunter_budget) ELSE << >>)
                            \o (IF payout_called
                                THEN Made("payout", owner_payout) ELSE << >>),
                 raised |-> fund_raised \/ payout_raised]
    IN  Block(Reinvestment(m.profit), HunterBudget(m.profit), OwnerPayout(m.profit))

\* one iteration of the loop up to the sunset check; an exception that
\* leaves the reinvestment block is logged by the except of
\* _manage_swarm_lifecycle and the task ends
LifecyclePoll(id) ==
    /\ CycleSuspended
    /\ running = NoTask
    /\ BagIn(id, tasks)
    /\ id \in DOMAIN active_swarms
    /\ \E m \in CollectSwarmMetrics, failed \in SUBSET {"fund", "payout"} :
          LET stored == [active_swarms EXCEPT ![id] = WithMetrics(@, m)]
              Poll(r) ==
                  LET spawned == \E i \in 1..Len(r.calls) : r.calls[i].c = "spawn"
                  IN  /\ spawned => /\ Size(active_swarms) < MaxSwarms
                                    /\ BagCardinality(tasks) < MaxTasks
                      /\ active_swarms' = r.reg
                      /\ calls' = r.calls
                      /\ tasks' = (IF spawned
                                   THEN tasks (+) SetToBag({SpawnId(stored)})
                                   ELSE tasks)
                                  (-) (IF r.raised THEN SetToBag({id})
                                       ELSE EmptyBag)
                      /\ running' = IF r.raised THEN NoTask
                                    ELSE [id |-> id, metrics |-> m]
                      /\ ev' = Event("poll", id, m)
          IN  /\ failed # {} => DGreater(m.profit, DZero)
              /\ Poll(IF DGreater(m.profit, DZero)
                      THEN ReinvestBlock(stored, id, m, failed)
                      ELSE [reg |-> stored, calls |-> << >>, raised |-> FALSE])
    /\ UNCHANGED <<knowledge_graph, cyc>>

\* if metrics['roi'] < min_roi_threshold: sunset and break; else sleep 3600
LifecycleSunsetCheck ==
    /\ running # NoTask
    /\ IF ShouldSunset(running.metrics)
       THEN LET r == SunsetSwarm(active_swarms, running.id)
            IN  /\ active_swarms' = r.reg
                /\ calls' = r.calls
                /\ tasks' = tasks (-) SetToBag({running.id})
                /\ ev' = Event("sunset", running.id, running.metrics)
       ELSE /\ calls' = << >>
            /\ ev' = Event("sleep", running.id, running.metrics)
            /\ UNCHANGED <<active_swarms, tasks>>
    /\ running' = NoTask
    /\ UNCHANGED <<knowledge_graph, cyc>>

SwarmIds ==
    {SwarmId(k, n) : k \in {"test_swarm", "prod_swarm", "spawn_swarm"},
                     n \in 0..MaxSwarms}

(***************************************************************************)
(* Specifications of MetaLearningCore.  Spec leaves the history variables  *)
(* alone; SpecHistory records every removed id and every failed template.  *)
(***************************************************************************)
HistInit ==
    /\ terminated = {}
    /\ failed_tests = {}

NoAlloc == [profit |-> DZero, site |-> "none", done |-> FALSE,
            reinvestment |-> DZero, hunter |-> DZero, owner |-> DZero]

NotDiscovered == [done |-> FALSE, patterns |-> << >>]

NoCall == [op |-> "none", arg |-> << >>, done |-> FALSE, result |-> << >>]

\* SwarmController.__init__: self.active_swarms = {}
CtlInit ==
    /\ ctl_swarms = EmptyDict
    /\ ctl_tasks = EmptyBag
    /\ ctl_ev = Event("init", NoId, InitialMetrics)
    /\ ctl_calls = << >>
    /\ ctl_run = [pc |-> "start", patterns |-> << >>, evaluated |-> << >>,
                  raised |-> FALSE]

IdleInit ==
    /\ CtlInit
    /\ alloc = NoAlloc
    /\ vin = << >>
    /\ vout = NotDiscovered
    /\ agent = NoCall

Init == CoreInit /\ HistInit /\ IdleInit

\* a step of the core, the history left alone
Core(A) == A /\ UNCHANGED <<histVars, ctlVars, fnVars>>

\* a step of the core, recorded in the history
Recorded(A) ==
    /\ A
    /\ terminated' = terminated \cup (DOMAIN active_swarms \ DOMAIN active_swarms')
    /\ failed_tests' = IF cyc.pc = "sunset"
                       THEN failed_tests \cup {cyc.template}
                       ELSE failed_tests
    /\ UNCHANGED <<ctlVars, fnVars>>

Next ==
    \/ Core(StartCycle)
    \/ Core(EndCycle)
    \/ Core(GenerateTemplate)
    \/ Core(DeployTestSwarm)
    \/ Core(TestPoll)
    \/ Core(TestTimeout)
    \/ Core(SunsetFailedTest)
    \/ Core(ScaleSuccessfulPattern)
    \/ \E id \in SwarmIds : Core(LifecycleExit(id))
    \/ \E id \in SwarmIds : Core(LifecyclePoll(id))
    \/ Core(LifecycleSunsetCheck)

Spec == Init /\ [][Next]_vars

NextHistory ==
    \/ Recorded(StartCycle)
    \/ Recorded(EndCycle)
    \/ Recorded(GenerateTemplate)
    \/ Recorded(DeployTestSwarm)
    \/ Recorded(TestPoll)
    \/ Recorded(TestTimeout)
    \/ Recorded(SunsetFailedTest)
    \/ Recorded(ScaleSuccessfulPattern)
    \/ \E id \in SwarmIds : Recorded(LifecycleExit(id))
    \/ \E id \in SwarmIds : Recorded(LifecyclePoll(id))
    \/ Recorded(LifecycleSunsetCheck)

SpecHistory == Init /\ [][NextHistory]_vars

(***************************************************************************)
(* _sunset_swarm called directly on a registry whose swarms carry resource *)
(* records with and without cost fields, as test_recover_resources builds  *)
(* them.                                                                   *)
(***************************************************************************)
RegistryInputs ==
    LET ComponentInputs ==
            {[provider |-> "cloudflare_workers"],
             [provider |-> "cloudflare_workers", cost |-> DZero],
             [provider |-> "cloudflare_workers", cost |-> DInt(30)],
             [provider |-> "cloudflare_workers", cost |-> DInt(50)]}
        ResourceInputs ==
            {EmptyDict}
            \cup {[compute |-> c] : c \in ComponentInputs}
            \cup {[storage |-> c] : c \in ComponentInputs}
            \cup {[compute |-> c, storage |-> d] :
                     c \in ComponentInputs, d \in ComponentInputs}
        SwarmInputs(id) ==
            {[id |-> id, template |-> 0, status |-> "production",
              metrics |-> InitialMetrics]}
            \cup {[id |-> id, template |-> 0, status |-> "production",
                   metrics |-> InitialMetrics, resources |-> r] :
                     r \in ResourceInputs}
        a == SwarmId("prod_swarm", 0)
        b == SwarmId("prod_swarm", 1)
    IN  {Put(EmptyDict, a, x) : x \in SwarmInputs(a)}
        \cup {Put(Put(EmptyDict, a, x), b, ProductionSwarm(b, 0)) :
                 x \in SwarmInputs(a)}

RecoverInit ==
    /\ knowledge_graph = GenerateSwarmTemplate(EmptyDict, Patterns[1])
    /\ active_swarms \in RegistryInputs
    /\ tasks = EmptyBag
    /\ running = NoTask
    /\ cyc = Cycle("idle", 0, 0, NoId, 0)
    /\ ev = Event("init", NoId, InitialMetrics)
    /\ calls = << >>
    /\ HistInit
    /\ IdleInit

\* await core._sunset_swarm(id)
SunsetCall(id) ==
    /\ LET r == SunsetSwarm(active_swarms, id)
       IN  /\ active_swarms' = r.reg
           /\ calls' = r.calls
    /\ ev' = Event("sunset_call", id, InitialMetrics)
    /\ UNCHANGED <<knowledge_graph, tasks, running, cyc>>

RecoverNext ==
    \E id \in {SwarmId("prod_swarm", 0), SwarmId("prod_swarm", 1)} :
        Core(SunsetCall(id))

SpecRecover == RecoverInit /\ [][RecoverNext]_vars

(***************************************************************************)
(* The reinvestment split as a function of the profit, at its two sites:   *)
(* _manage_swarm_lifecycle (rates of success_metrics) and                  *)
(* SwarmController._reinvest_profits (the literals 0.7, 0.2, 0.1).         *)
(***************************************************************************)
\* reinvestment = profit * 0.7, hunter_budget = profit * 0.2 and
\* owner_payout = profit * 0.1, for every profit of ProfitInputs
CtlShareTable ==
    LET ctl_growth_rate == DHex(1, -1, <<6, 6, 6, 6, 6, 6, 6, 6, 6, 6, 6, 6, 6>>)
        ctl_hunter_rate == DHex(1, -3, <<9, 9, 9, 9, 9, 9, 9, 9, 9, 9, 9, 9, 10>>)
        ctl_owner_rate  == DHex(1, -4, <<9, 9, 9, 9, 9, 9, 9, 9, 9, 9, 9, 9, 10>>)
    IN  {[profit       |-> p,
          reinvestment |-> DMul(p, ctl_growth_rate),
          hunter       |-> DMul(p, ctl_hunter_rate),
          owner        |-> DMul(p, ctl_owner_rate)] : p \in ProfitInputs}

\* the three products of _reinvest_profits
CtlShares(profit) == CHOOSE t \in CtlShareTable : t.profit = profit

AllocInit ==
    /\ CoreInit /\ HistInit /\ CtlInit
    /\ alloc \in {[NoAlloc EXCEPT !.profit = p, !.site = site] :
                     p \in {q \in ProfitInputs : DGreater(q, DZero)},
                     site \in {"core", "controller"}}
    /\ vin = << >>
    /\ vout = NotDiscovered
    /\ agent = NoCall

\* the three assignments of the reinvestment block of _manage_swarm_lifecycle
AllocateCore ==
    /\ alloc.site = "core"
    /\ ~alloc.done
    /\ alloc' = [alloc EXCEPT !.done = TRUE,
                              !.reinvestment = Reinvestment(alloc.profit),
                              !.hunter = HunterBudget(alloc.profit),
                              !.owner = OwnerPayout(alloc.profit)]
    /\ UNCHANGED <<coreVars, histVars, ctlVars, vin, vout, agent>>

\* the three assignments of _reinvest_profits
AllocateController ==
    /\ alloc.site = "controller"
    /\ ~alloc.done
    /\ alloc' = [alloc EXCEPT !.done = TRUE,
                              !.reinvestment = CtlShares(alloc.profit).reinvestment,
                              !.hunter = CtlShares(alloc.profit).hunter,
                              !.owner = CtlShares(alloc.profit).owner]
    /\ UNCHANGED <<coreVars, histVars, ctlVars, vin, vout, agent>>

AllocNext == AllocateCore \/ AllocateController

SpecAlloc == AllocInit /\ [][AllocNext]_vars

(***************************************************************************)
(* SwarmController: _deploy_swarm, _manage_lifecycle, _reinvest_profits    *)
(* and _sunset_swarm.  The helpers these call (_collect_metrics,           *)
(* _scale_infrastructure, _process_payout, _recover_resources and the three *)
(* set-up helpers of _deploy_swarm) have no definition in the repository;  *)
(* they are modelled from the specification: the metrics source yields a   *)
(* snapshot, recovery sums the cost fields, the others only record a call. *)
(***************************************************************************)
\* most swarms the controller's registry holds
MaxCtlSwarms == 2

\* most _manage_lifecycle tasks alive
MaxCtlTasks == 3

\* metrics = await self._collect_metrics(swarm)
CtlCollectMetrics == MetricSamples

\* recovered = await self._recover_resources(swarm)
CtlRecoverResources(swarm) ==
    DPlus(CostOf(Get(Get(swarm, "resources"), "compute")),
          CostOf(Get(Get(swarm, "resources"), "storage")))

\* elif metrics['roi'] < 0.3
ctl_roi_threshold == DHex(1, -2, <<3, 3, 3, 3, 3, 3, 3, 3, 3, 3, 3, 3, 3>>)

\* _is_profitable: monthly net profit >= 100 and yearly roi >= 0.5
IsProfitable(profit_analysis) ==
    /\ DGeq(GetNumber(Get(profit_analysis, "monthly"), "net_profit"), DInt(100))
    /\ DGeq(GetNumber(Get(profit_analysis, "yearly"), "roi"),
            DHex(1, -1, <<0, 0, 0, 0, 0, 0, 0, 0, 0, 0, 0, 0, 0>>))

\* the swarm record of _deploy_swarm; the mappings of map_resources carry
\* 'monthly_cost', never 'cost'
CtlSwarm(id, method) ==
    LET MapResources ==
            [compute |-> [provider |-> "cloudflare_workers",
                          monthly_cost |-> DZero],
             storage |-> [provider |-> "cloudflare_kv", monthly_cost |-> DZero],
             network |-> [provider |-> "cloudflare", monthly_cost |-> DZero]]
    IN  [id |-> id, pattern |-> method, status |-> "initializing",
         metrics |-> InitialMetrics, resources |-> MapResources]

\* the calls of _reinvest_profits, in order
CtlReinvestProfits(id, profit) ==
    (IF DGreater(CtlShares(profit).reinvestment, DZero)
     THEN <<Call("scale", id, CtlShares(profit).reinvestment)>> ELSE << >>)
    \o (IF DGreater(CtlShares(profit).hunter, DZero)
        THEN <<Call("fund", id, CtlShares(profit).hunter)>> ELSE << >>)
    \o (IF DGreater(CtlShares(profit).owner, DZero)
        THEN <<Call("payout", id, CtlShares(profit).owner)>> ELSE << >>)

\* SwarmController._sunset_swarm
CtlSunsetSwarm(reg, id) ==
    IF id \notin DOMAIN reg THEN [reg |-> reg, calls |-> << >>]
    ELSE LET recovered == CtlRecoverResources(reg[id])
         IN  [reg   |-> Del(reg, id),
              calls |-> <<Call("recover", id, recovered)>>
                        \o (IF DGreater(recovered, DZero)
                            THEN <<Call("fund", id, recovered)>>
                            ELSE << >>)
                        \o <<Call("del", id, DZero)>>]

\* _deploy_swarm for a method that passed the gates of run
CtlDeploySwarm(method) ==
    /\ Size(ctl_swarms) < MaxCtlSwarms
    /\ BagCardinality(ctl_tasks) < MaxCtlTasks
    /\ LET id == SwarmId("swarm", Size(ctl_swarms))
       IN  /\ ctl_swarms' = Put(ctl_swarms, id, CtlSwarm(id, method))
           /\ ctl_tasks' = ctl_tasks (+) SetToBag({id})
           /\ ctl_ev' = Event("deploy", id, InitialMetrics)
    /\ ctl_calls' = << >>
    /\ UNCHANGED <<ctl_run, coreVars, histVars, fnVars>>

\* one iteration of _manage_lifecycle on a registered swarm
CtlPoll(id) ==
    /\ BagIn(id, ctl_tasks)
    /\ id \in DOMAIN ctl_swarms
    /\ \E m \in CtlCollectMetrics :
          LET stored == [ctl_swarms EXCEPT ![id] = WithMetrics(@, m)]
              \* the branch taken on the snapshot
              branch == IF DGreater(m.profit, DZero) THEN "reinvest"
                        ELSE IF DLess(m.roi, ctl_roi_threshold) THEN "sunset"
                        ELSE "sleep"
          IN  /\ ctl_swarms' = IF branch = "sunset"
                               THEN CtlSunsetSwarm(stored, id).reg
                               ELSE stored
              /\ ctl_calls' = IF branch = "sunset"
                              THEN CtlSunsetSwarm(stored, id).calls
                              ELSE IF branch = "reinvest"
                              THEN CtlReinvestProfits(id, m.profit)
                              ELSE << >>
              /\ ctl_tasks' = IF branch = "sunset"
                              THEN ctl_tasks (-) SetToBag({id})
                              ELSE ctl_tasks
              /\ ctl_ev' = Event("poll", id, m)
    /\ UNCHANGED <<ctl_run, coreVars, histVars, fnVars>>

\* swarm = self.active_swarms.get(swarm_id); if not swarm: break
CtlExit(id) ==
    /\ BagIn(id, ctl_tasks)
    /\ id \notin DOMAIN ctl_swarms
    /\ ctl_tasks' = ctl_tasks (-) SetToBag({id})
    /\ ctl_ev' = Event("exit", id, InitialMetrics)
    /\ ctl_calls' = << >>
    /\ UNCHANGED <<ctl_swarms, ctl_run, coreVars, histVars, fnVars>>

CtlIds == {SwarmId("swarm", n) : n \in 0..MaxCtlSwarms}

\* the methods deployed are those of discover_methods, by id
CtlNext ==
    \/ \E method \in {"dropship_001", "content_001", "saas_001"} :
          CtlDeploySwarm(method)
    \/ \E id \in CtlIds : CtlPoll(id)
    \/ \E id \in CtlIds : CtlExit(id)

SpecCtl == Init /\ [][CtlNext]_vars

(***************************************************************************)
(* discover_patterns and _validate_pattern on catalogs of patterns that    *)
(* may lack any of their fields.                                           *)
(***************************************************************************)
\* largest catalog handed to discover_patterns
MaxCatalog == 2

\* the keys _validate_pattern requires: of the pattern, of its
\* success_metrics, of its implementation and of its compute_needs
RequiredFields ==
    [top            |-> {"id", "type", "method", "success_metrics",
                         "implementation"},
     metrics        |-> {"min_profit", "min_roi", "automation_level"},
     implementation |-> {"platform", "traffic_source", "compute_needs"},
     compute        |-> {"cpu", "memory", "storage"}]

\* the dict with the given keys at each level
MakePattern(top, sm, impl, cn) ==
    [k \in top |->
        IF k = "success_metrics" THEN [j \in sm |-> "value"]
        ELSE IF k = "implementation"
        THEN [j \in impl |->
                 IF j = "compute_needs" THEN [i \in cn |-> "value"]
                 ELSE "value"]
        ELSE "value"]

\* the catalogs handed to discover_patterns
CatalogInputs ==
    LET F == RequiredFields
        \* every choice of present keys; a nested dict varies only where
        \* it exists
        PatternInputs ==
            UNION {
                {MakePattern(top, sm, impl, cn) :
                    sm \in {x \in SUBSET F.metrics :
                               "success_metrics" \in top \/ x = {}},
                    impl \in {x \in SUBSET F.implementation :
                                 "implementation" \in top \/ x = {}},
                    cn \in {x \in SUBSET F.compute :
                               "implementation" \in top \/ x = {}}} :
                top \in SUBSET F.top}
        \* the complete pattern and the patterns lacking one field of one
        \* level
        NearMissInputs ==
            {MakePattern(F.top, F.metrics, F.implementation, F.compute),
             MakePattern(F.top \ {"id"}, F.metrics, F.implementation, F.compute),
             MakePattern(F.top, F.metrics \ {"min_roi"}, F.implementation,
                         F.compute),
             MakePattern(F.top, F.metrics, F.implementation \ {"platform"},
                         F.compute),
             MakePattern(F.top, F.metrics, F.implementation,
                         F.compute \ {"storage"})}
        RECURSIVE SeqsUpTo(_, _)
        SeqsUpTo(S, n) ==
            IF n = 0 THEN {<< >>}
            ELSE LET shorter == SeqsUpTo(S, n - 1)
                 IN  shorter \cup {Append(q, x) : q \in shorter, x \in S}
    IN  {<<x>> : x \in PatternInputs}
        \cup SeqsUpTo(NearMissInputs, MaxCatalog)
        \cup {Patterns}

ValidateInit ==
    /\ CoreInit /\ HistInit /\ CtlInit
    /\ alloc = NoAlloc
    /\ vin \in CatalogInputs
    /\ vout = NotDiscovered
    /\ agent = NoCall

\* patterns = await engine.discover_patterns()
Discover ==
    /\ ~vout.done
    /\ vout' = [done |-> TRUE, patterns |-> DiscoverPatterns(vin)]
    /\ UNCHANGED <<coreVars, histVars, ctlVars, alloc, vin, agent>>

ValidateNext == Discover

SpecValidate == ValidateInit /\ [][ValidateNext]_vars
(***************************************************************************)
(* _generate_swarm_template called on any sequence of patterns, those of   *)
(* test_find_related_patterns among them: the knowledge graph grows by one *)
(* entry per call, with the edges to the entries before it.                *)
(***************************************************************************)
\* template = await self._generate_swarm_template(pattern)
GenerateSwarmTemplateCall(pattern) ==
    /\ Size(knowledge_graph) < MaxTemplates
    /\ knowledge_graph' = GenerateSwarmTemplate(knowledge_graph, pattern)
    /\ UNCHANGED <<active_swarms, tasks, running, cyc, ev, calls>>
    /\ UNCHANGED <<histVars, ctlVars, fnVars>>

RelatedNext ==
    \E pattern \in {TestPatterns[i] : i \in 1..Len(TestPatterns)}
                   \cup {Patterns[i] : i \in 2..Len(Patterns)} :
        GenerateSwarmTemplateCall(pattern)

SpecRelated == Init /\ [][RelatedNext]_vars

(***************************************************************************)
(* MethodDiscoveryAgent: _validate_method and discover_methods.  Profits   *)
(* and costs are the integers of the method records, held as the binary64 *)
(* values the divisions convert them to.                                   *)
(***************************************************************************)
MethodMetrics(monthly_profit, startup_cost, automation_level) ==
    [monthly_profit |-> monthly_profit, startup_cost |-> startup_cost,
     automation_level |-> automation_level]

\* the methods list of discover_methods
ExampleMethods ==
    << [id |-> "dropship_001", type |-> "ecommerce", method |-> "dropshipping",
        platform |-> "shopify",
        metrics |-> MethodMetrics(DInt(500), DInt(50), DHex(1, -1, <<11, 3, 3, 3, 3, 3, 3, 3, 3, 3, 3, 3, 3>>)),
        implementation |-> [platform |-> "shopify",
                            traffic_source |-> "tiktok",
                            compute_needs |-> [cpu |-> "minimal",
                                               memory |-> "512MB",
                                               storage |-> "1GB"]]],
       [id |-> "content_001", type |-> "content",
        method |-> "technical_writing", platform |-> "medium",
        metrics |-> MethodMetrics(DInt(400), DZero, DHex(1, -1, <<8, 0, 0, 0, 0, 0, 0, 0, 0, 0, 0, 0, 0>>)),
        implementation |-> [platform |-> "medium",
                            traffic_source |-> "seo",
                            compute_needs |-> [cpu |-> "minimal",
                                               memory |-> "256MB",
                                               storage |-> "500MB"]]],
       [id |-> "saas_001", type |-> "saas", method |-> "api_service",
        platform |-> "vercel",
        metrics |-> MethodMetrics(DInt(800), DInt(200), DHex(1, -1, <<14, 6, 6, 6, 6, 6, 6, 6, 6, 6, 6, 6, 6>>)),
        implementation |-> [platform |-> "vercel",
                            traffic_source |-> "api_marketplace",
                            compute_needs |-> [cpu |-> "moderate",
                                               memory |-> "1GB",
                                               storage |-> "5GB"]]] >>

ValidateMethod_SwappedWeights(method) ==
    LET \* validation_metrics['max_startup'] = 1000.0
        max_startup      == DInt(1000)
        \* the weight 0.3 of profit_score and of automation_score, and
        \* the weight 0.2 of startup_score and of roi_score
        weight_profit    == DHex(1, -2, <<3, 3, 3, 3, 3, 3, 3, 3, 3, 3, 3, 3, 3>>)
        weight_startup   == DHex(1, -3, <<9, 9, 9, 9, 9, 9, 9, 9, 9, 9, 9, 9, 10>>)
        metrics          == Get(method, "metrics")
        profit_score     == DMin(DInt(1), DDiv(GetNumber(metrics, "monthly_profit"),
                                               DInt(1000)))
        startup_score    == DSub(DInt(1), DDiv(GetNumber(metrics, "startup_cost"),
                                               max_startup))
        automation_score == GetNumber(metrics, "automation_level")
        startup_cost     == GetNumber(metrics, "startup_cost")
        monthly_profit   == GetNumber(metrics, "monthly_profit")
        roi              == IF DGreater(startup_cost, DZero)
                            THEN DDiv(monthly_profit, startup_cost)
                            ELSE DInt(1)
        roi_score        == DMin(DInt(1), DDiv(roi, DInt(2)))
    IN  DPlus(DPlus(DPlus(DMul(profit_score, weight_startup),
                          DMul(startup_score, weight_startup)),
                    DMul(automation_score, weight_profit)),
              DMul(roi_score, weight_profit))

\* _validate_method: the weighted score of a method
ValidateMethod(method) ==
    LET \* validation_metrics['max_startup'] = 1000.0
        max_startup      == DInt(1000)
        \* the weight 0.3 of profit_score and of automation_score, and
        \* the weight 0.2 of startup_score and of roi_score
        weight_profit    == DHex(1, -2, <<3, 3, 3, 3, 3, 3, 3, 3, 3, 3, 3, 3, 3>>)
        weight_startup   == DHex(1, -3, <<9, 9, 9, 9, 9, 9, 9, 9, 9, 9, 9, 9, 10>>)
        metrics          == Get(method, "metrics")
        profit_score     == DMin(DInt(1), DDiv(GetNumber(metrics, "monthly_profit"),
                                               DInt(1000)))
        startup_score    == DSub(DInt(1), DDiv(GetNumber(metrics, "startup_cost"),
                                               max_startup))
        automation_score == GetNumber(metrics, "automation_level")
        startup_cost     == GetNumber(metrics, "startup_cost")
        monthly_profit   == GetNumber(metrics, "monthly_profit")
        roi              == IF DGreater(startup_cost, DZero)
                            THEN DDiv(monthly_profit, startup_cost)
                            ELSE DInt(1)
        roi_score        == DMin(DInt(1), DDiv(roi, DInt(2)))
    IN  DPlus(DPlus(DPlus(DMul(profit_score, weight_profit),
                          DMul(startup_score, weight_startup)),
                    DMul(automation_score, weight_profit)),
              DMul(roi_score, weight_startup))

\* discover_methods over a methods list: the methods handed to
\* _validate_method, their scores, and the methods appended to
\* validated_methods
DiscoverMethods(methods) ==
    LET scores == [i \in 1..Len(methods) |-> ValidateMethod(methods[i])]
        \* if validation_score >= 0.6
        Keep(i) == DGeq(scores[i],
                        DHex(1, -1, <<3, 3, 3, 3, 3, 3, 3, 3, 3, 3, 3, 3, 3>>))
        RECURSIVE Validated(_)
        Validated(i) ==
            IF i > Len(methods) THEN << >>
            ELSE (IF Keep(i) THEN <<methods[i]>> ELSE << >>) \o Validated(i + 1)
    IN  [scored |-> methods, scores |-> scores, validated |-> Validated(1)]

\* method records handed to _validate_method: every combination of the
\* monthly profits, startup costs and automation levels (0, 0.5, 0.85, 1),
\* and records lacking the metrics or one of their fields
MethodInputs ==
    LET ProfitLevels     == {0, 500, 1000, 2000}
        StartupLevels    == {0, 50, 500, 1000, 2000}
        AutomationLevels ==
            {DZero,
             DHex(1, -1, <<0, 0, 0, 0, 0, 0, 0, 0, 0, 0, 0, 0, 0>>),
             DHex(1, -1, <<11, 3, 3, 3, 3, 3, 3, 3, 3, 3, 3, 3, 3>>),
             DInt(1)}
    IN
    {[id |-> "method", metrics |-> MethodMetrics(DInt(p), DInt(c), a)] :
        p \in ProfitLevels, c \in StartupLevels, a \in AutomationLevels}
    \cup {[id |-> "method"],
          [id |-> "method", metrics |-> EmptyDict],
          [id |-> "method", metrics |-> [monthly_profit |-> DInt(1000)]],
          [id |-> "method", metrics |-> [startup_cost |-> DInt(2000)]],
          [id |-> "method", metrics |-> [automation_level |-> DInt(1)]]}

(***************************************************************************)
(* PatternDiscoveryEngine._assess_platform_risk.                           *)
(***************************************************************************)
\* _assess_platform_risk: the .lower() of a platform that is not a str
\* raises, and the handler returns the level 'unknown'
AssessPlatformRisk(pattern) ==
    LET \* s.lower() of the platform names of the model
        Lower(s) ==
            CASE s = "Twitter"  -> "twitter"
              [] s = "Facebook" -> "facebook"
              [] OTHER          -> s
        high_risk_platforms == {"twitter", "facebook"}
        \* if automation_level > 0.9
        high_automation ==
            DHex(1, -1, <<12, 12, 12, 12, 12, 12, 12, 12, 12, 12, 12, 12, 13>>)
        implementation   == Get(pattern, "implementation")
        platform         == IF "platform" \in DOMAIN implementation
                            THEN implementation["platform"] ELSE Str("")
        automation_level == GetNumber(Get(pattern, "success_metrics"),
                                      "automation_level")
        checked          == IF Lower(platform.str) \in high_risk_platforms
                            THEN [level   |-> "high",
                                  factors |-> <<"Platform with history of API changes">>]
                            ELSE [level |-> "low", factors |-> << >>]
    IN  IF ~IsStr(platform)
        THEN [level |-> "unknown", factors |-> <<"error">>]
        ELSE IF DGreater(automation_level, high_automation)
             THEN [level   |-> "medium",
                   factors |-> Append(checked.factors,
                                      "High automation may trigger platform limits")]
             ELSE checked

\* patterns handed to _assess_platform_risk: those of
\* test_platform_risk_assessment, other platforms and automation levels
\* (0.5, 0.7, 0.9, 0.95, 0.98), and patterns lacking the fields
RiskPatternInputs ==
    LET RiskPlatformInputs ==
            {Str("shopify"), Str("github"), Str("twitter"), Str("facebook"),
             Str("Twitter"), Str("Facebook"), None}
        RiskAutomationInputs ==
            {DHex(1, -1, <<0, 0, 0, 0, 0, 0, 0, 0, 0, 0, 0, 0, 0>>),
             DHex(1, -1, <<6, 6, 6, 6, 6, 6, 6, 6, 6, 6, 6, 6, 6>>),
             DHex(1, -1, <<12, 12, 12, 12, 12, 12, 12, 12, 12, 12, 12, 12, 13>>),
             DHex(1, -1, <<14, 6, 6, 6, 6, 6, 6, 6, 6, 6, 6, 6, 6>>),
             DHex(1, -1, <<15, 5, 12, 2, 8, 15, 5, 12, 2, 8, 15, 5, 12>>)}
    IN
    {[implementation  |-> [platform |-> p],
      success_metrics |-> [automation_level |-> a]] :
        p \in RiskPlatformInputs, a \in RiskAutomationInputs}
    \cup {[implementation |-> [platform |-> p]] : p \in RiskPlatformInputs}
    \cup {[success_metrics |-> [automation_level |-> a]] :
            a \in RiskAutomationInputs}
    \cup {EmptyDict}

(***************************************************************************)
(* Calls of the agents' functions, one call per behaviour: the argument is *)
(* chosen initially and the step of the function called returns a result.  *)
(***************************************************************************)
CallOf(op, arg) == [op |-> op, arg |-> arg, done |-> FALSE, result |-> << >>]

Returned(result) == [agent EXCEPT !.done = TRUE, !.result = result]

\* _validate_method on a method record, discover_methods on its own list
\* and on one-method lists, _assess_platform_risk on a pattern
AgentCalls ==
    {CallOf("validate_method", m) : m \in MethodInputs}
    \cup {CallOf("discover_methods", ms) :
             ms \in {ExampleMethods} \cup {<<m>> : m \in MethodInputs}}
    \cup {CallOf("assess_platform_risk", pattern) : pattern \in RiskPatternInputs}

AgentInit ==
    /\ CoreInit /\ HistInit /\ CtlInit
    /\ alloc = NoAlloc
    /\ vin = << >>
    /\ vout = NotDiscovered
    /\ agent \in AgentCalls

\* score = await agent._validate_method(method)
ValidateMethodCall ==
    /\ agent.op = "validate_method"
    /\ ~agent.done
    /\ agent' = Returned(ValidateMethod(agent.arg))
    /\ UNCHANGED <<coreVars, histVars, ctlVars, alloc, vin, vout>>

\* methods = await agent.discover_methods()
DiscoverMethodsCall ==
    /\ agent.op = "discover_methods"
    /\ ~agent.done
    /\ agent' = Returned(DiscoverMethods(agent.arg))
    /\ UNCHANGED <<coreVars, histVars, ctlVars, alloc, vin, vout>>

\* risk = engine._assess_platform_risk(pattern)
AssessPlatformRiskCall ==
    /\ agent.op = "assess_platform_risk"
    /\ ~agent.done
    /\ agent' = Returned(AssessPlatformRisk(agent.arg))
    /\ UNCHANGED <<coreVars, histVars, ctlVars, alloc, vin, vout>>

AgentNext ==
    \/ ValidateMethodCall
    \/ DiscoverMethodsCall
    \/ AssessPlatformRiskCall

SpecAgents == AgentInit /\ [][AgentNext]_vars

(***************************************************************************)
(* LegalAssessmentAgent.  The substring tests of the code (term in text)   *)
(* become membership of the term in the set of the searched terms that     *)
(* occur in the text.                                                      *)
(***************************************************************************)
\* _get_platform_tos: the terms of service and the cache afterwards.  The
\* session is None before initialize(), or its get raises, or it answers
\* with a status and a page.
GetPlatformTos(platform, session, tos_cache) ==
    LET tos_endpoints == {"amazon", "shopify", "youtube", "medium"}
        UnknownTos    == [version |-> "unknown", content |-> ""]
        ErrorTos      == [version |-> "error", content |-> ""]
        \* _extract_section: the pattern is an f-string in which {0,3} is
        \* the tuple (0, 3), so it has two groups; when it matches, findall
        \* yields tuples and the join raises, and the handler returns ''.
        \* No term occurs in ''.
        ExtractSection(text, keywords) == {}
        \* _parse_tos of a page: text.version is the number after
        \* 'Version', if any
        ParseTos(text) ==
            [version     |-> IF "version" \in DOMAIN text THEN text.version
                             ELSE "unknown",
             sections    |->
                 [automation |-> ExtractSection(text, <<"automation", "bot", "script">>),
                  data_usage |-> ExtractSection(text, <<"data", "information", "privacy">>),
                  api_usage  |-> ExtractSection(text, <<"api", "interface", "endpoint">>),
                  content    |-> ExtractSection(text, <<"content", "material", "submission">>)],
             raw_content |-> text]
    IN  IF platform \in DOMAIN tos_cache
        THEN [tos |-> tos_cache[platform], tos_cache |-> tos_cache]
        ELSE IF platform \notin tos_endpoints
             THEN [tos |-> UnknownTos, tos_cache |-> tos_cache]
             ELSE IF session.kind \in {"none", "raises"}
                  THEN [tos |-> ErrorTos, tos_cache |-> tos_cache]
                  ELSE IF session.status = 200
                       THEN [tos       |-> ParseTos(session.text),
                             tos_cache |-> Put(tos_cache, platform,
                                               ParseTos(session.text))]
                       ELSE [tos |-> UnknownTos, tos_cache |-> tos_cache]

\* check_platform_compliance: the result and the cache afterwards.  The
\* .lower() of a platform that is not a str raises: score 0.
CheckPlatformCompliance(method, session, tos_cache) ==
    LET platform == IF "platform" \in DOMAIN method
                    THEN method["platform"] ELSE Str("")
        got      == GetPlatformTos(platform.str, session, tos_cache)
        tos      == got.tos
        \* tos.get('sections', {}).get(name, ''), as the terms occurring in it
        SectionOf(name) ==
            LET sections == Get(tos, "sections")
            IN  IF name \in DOMAIN sections THEN sections[name] ELSE {}
        \* d.get(k, False) of a dict of flags
        Flag(d, k) == IF k \in DOMAIN d THEN d[k] ELSE FALSE
        \* _check_automation_compliance: passed or not.  The .lower() of an
        \* implementation that is not a str raises, and the handler fails
        \* the check; the implementation texts with 'api' in them are
        \* "api" and "api client".
        automation_allowed ==
            LET automation_rules == SectionOf("automation")
                implementation   == IF "implementation" \in DOMAIN method
                                    THEN method["implementation"] ELSE Str("")
            IN  IF automation_rules \cap {"prohibited", "forbidden", "not allowed"} # {}
                THEN FALSE
                ELSE IF "api" \in automation_rules
                     THEN /\ IsStr(implementation)
                          /\ implementation.str \in {"api", "api client"}
                     ELSE TRUE
        \* _check_data_usage_compliance: the .get of a data_usage that is
        \* not a dict raises, and the handler fails the check
        data_usage_allowed ==
            LET data_rules        == SectionOf("data_usage")
                method_data_usage == IF "data_usage" \in DOMAIN method
                                     THEN method["data_usage"] ELSE Dict(EmptyDict)
            IN  IF ~IsDict(method_data_usage) THEN FALSE
                ELSE IF /\ Flag(method_data_usage.dict, "collects_personal_data")
                        /\ "personal" \in data_rules
                     THEN FALSE
                     ELSE IF /\ Flag(method_data_usage.dict, "stores_data")
                             /\ "storage" \in data_rules
                          THEN FALSE
                          ELSE TRUE
        \* _check_api_limits_compliance: _extract_rate_limit has no
        \* definition, so rules that mention a rate limit raise and the
        \* handler fails the check
        api_limits_respected == "rate limit" \notin SectionOf("api_usage")
        \* _check_content_guidelines_compliance
        content_guidelines_met ==
            LET content_rules  == SectionOf("content")
                method_content == IF "content" \in DOMAIN method
                                  THEN method["content"] ELSE Dict(EmptyDict)
            IN  \A restriction \in {"adult", "violence", "hate speech", "spam"} :
                    restriction \in content_rules =>
                        /\ IsDict(method_content)
                        /\ ~Flag(method_content.dict, restriction)
        checks == << <<"automation_allowed", automation_allowed>>,
                     <<"data_usage_allowed", data_usage_allowed>>,
                     <<"api_limits_respected", api_limits_respected>>,
                     <<"content_guidelines_met", content_guidelines_met>> >>
        RECURSIVE Run(_, _, _)
        \* compliance_score -= 0.25 for each check that did not pass
        Run(i, violations, compliance_score) ==
            IF i > Len(checks)
            THEN [score       |-> DMax(DZero, compliance_score),
                  violations  |-> violations,
                  tos_version |-> IF "version" \in DOMAIN tos
                                  THEN tos.version ELSE "unknown"]
            ELSE IF checks[i][2]
                 THEN Run(i + 1, violations, compliance_score)
                 ELSE Run(i + 1, Append(violations, checks[i][1]),
                          DSub(compliance_score,
                               DHex(1, -2, <<0, 0, 0, 0, 0, 0, 0, 0, 0, 0, 0, 0, 0>>)))
    IN  IF ~IsStr(platform)
        THEN [result    |-> [score |-> DZero, violations |-> <<"error">>],
              tos_cache |-> tos_cache]
        ELSE [result |-> Run(1, << >>, DInt(1)), tos_cache |-> got.tos_cache]

ComplianceScore_RiskNotInverted(platform_score, regulatory_score, risk_score) ==
    LET weight_compliance == DHex(1, -2, <<9, 9, 9, 9, 9, 9, 9, 9, 9, 9, 9, 9, 10>>)
        weight_risk       == DHex(1, -3, <<9, 9, 9, 9, 9, 9, 9, 9, 9, 9, 9, 9, 10>>)
    IN  DPlus(DPlus(DMul(platform_score, weight_compliance),
                    DMul(regulatory_score, weight_compliance)),
              DMul(risk_score, weight_risk))

\* compliance_score of assess_method: platform * 0.4 + regulatory * 0.4
\* + (1 - risk) * 0.2
ComplianceScore(platform_score, regulatory_score, risk_score) ==
    LET weight_compliance == DHex(1, -2, <<9, 9, 9, 9, 9, 9, 9, 9, 9, 9, 9, 9, 10>>)
        weight_risk       == DHex(1, -3, <<9, 9, 9, 9, 9, 9, 9, 9, 9, 9, 9, 9, 10>>)
    IN  DPlus(DPlus(DMul(platform_score, weight_compliance),
                    DMul(regulatory_score, weight_compliance)),
              DMul(DSub(DInt(1), risk_score), weight_risk))

\* assess_method on a dict: the assessment and the cache afterwards
AssessMethod(method, session, tos_cache) ==
    LET \* the searched terms, by the strings of the model that contain
        \* them: term in s.lower()
        TermsIn(s) ==
            CASE s = "shopify"                -> {"shop"}
              [] s = "collects_personal_data" -> {"personal"}
              [] s = "stores_data"            -> {"store"}
              [] s = "user"                   -> {"user"}
              [] s = "payment"                -> {"payment"}
              [] s = "copy brand user save payment market sell"
                                              -> {"copy", "brand", "user", "save",
                                                  "payment", "market", "sell"}
              [] OTHER                        -> {}
        \* json.dumps(method) succeeds: no value of the method is a set
        serialisable == \A k \in DOMAIN method : "set" \notin DOMAIN method[k]
        \* the searched terms occurring in json.dumps(method).lower():
        \* those of the keys and of the str values, at both levels
        ValueTerms(v) ==
            IF IsStr(v) THEN TermsIn(v.str)
            ELSE IF IsDict(v)
                 THEN UNION {TermsIn(j) : j \in DOMAIN v.dict}
                 ELSE {}
        terms == UNION {TermsIn(k) \cup ValueTerms(method[k]) : k \in DOMAIN method}
        \* _handles_personal_data, _handles_financial_data, _is_ecommerce
        handles_personal_data ==
            terms \cap {"user", "personal", "profile", "email", "address"} # {}
        handles_financial_data ==
            terms \cap {"payment", "credit", "bank", "transaction"} # {}
        is_ecommerce ==
            terms \cap {"shop", "store", "product", "sell"} # {}
        \* _identify_applicable_regulations: when json.dumps raises, the
        \* handler returns []
        regulations ==
            IF ~serialisable THEN << >>
            ELSE (IF handles_personal_data
                  THEN << [name |-> "GDPR", type |-> "privacy"],
                          [name |-> "CCPA", type |-> "privacy"] >>
                  ELSE << >>)
                 \o (IF handles_financial_data
                     THEN << [name |-> "PSD2", type |-> "financial"],
                             [name |-> "PCI-DSS", type |-> "financial"] >>
                     ELSE << >>)
                 \o (IF is_ecommerce
                     THEN << [name |-> "Consumer Rights Directive", type |-> "consumer"],
                             [name |-> "FTC E-commerce Rules", type |-> "consumer"] >>
                     ELSE << >>)
        \* _check_regulation_compliance: compliant stays True except where
        \* _check_privacy_compliance raises on a data_usage that is not a
        \* dict
        Compliant(regulation) ==
            IF regulation.type = "privacy"
            THEN ("data_usage" \in DOMAIN method) => IsDict(method["data_usage"])
            ELSE TRUE
        RECURSIVE Regulatory(_, _)
        \* check_regulatory_compliance: 1.0 / len(regulations) off for each
        \* regulation not complied with
        Regulatory(i, compliance_score) ==
            IF i > Len(regulations) THEN compliance_score
            ELSE IF Compliant(regulations[i])
                 THEN Regulatory(i + 1, compliance_score)
                 ELSE Regulatory(i + 1,
                                 DSub(compliance_score,
                                      DDiv(DInt(1), DInt(Len(regulations)))))
        regulatory ==
            [score                  |-> DMax(DZero, Regulatory(1, DInt(1))),
             applicable_regulations |-> [i \in 1..Len(regulations) |->
                                             regulations[i].name]]
        \* the risk increments 0.3, 0.4 and 0.5
        risk_03 == DHex(1, -2, <<3, 3, 3, 3, 3, 3, 3, 3, 3, 3, 3, 3, 3>>)
        risk_04 == DHex(1, -2, <<9, 9, 9, 9, 9, 9, 9, 9, 9, 9, 9, 9, 10>>)
        risk_05 == DHex(1, -1, <<0, 0, 0, 0, 0, 0, 0, 0, 0, 0, 0, 0, 0>>)
        \* a risk check: 1.0 when json.dumps raises, else the increments
        \* whose condition holds, added to 0.0 in order
        Level(first, inc1, second, inc2) ==
            IF ~serialisable THEN DInt(1)
            ELSE DPlus(DPlus(DZero, IF first THEN inc1 ELSE DZero),
                       IF second THEN inc2 ELSE DZero)
        \* identify_legal_risks: the four levels and their mean
        LegalRisks(ip, privacy, financial, consumer) ==
            LET levels == <<ip, privacy, financial, consumer>>
            IN  [risk_score |->
                     DDiv(DPlus(DPlus(DPlus(DPlus(DZero, ip), privacy),
                                      financial), consumer),
                          DInt(Len(levels))),
                 levels |-> levels]
        \* _check_ip_risks, _check_privacy_risks, _check_financial_risks
        \* and _check_consumer_risks
        legal ==
            LegalRisks(Level("copy" \in terms, risk_03,
                             terms \cap {"brand", "trademark"} # {}, risk_03),
                       Level(handles_personal_data, risk_04,
                             terms \cap {"store", "save"} # {}, risk_03),
                       Level(handles_financial_data, risk_05,
                             terms \cap {"transfer", "payment"} # {}, risk_04),
                       Level(is_ecommerce, risk_03,
                             terms \cap {"advertis", "market"} # {}, risk_03))
        \* the assessment returned: approved from a compliance_score of 0.7
        Assessment(platform, regulatory_compliance, legal_risks, compliance_score) ==
            [assessment |->
                 [platform_compliance   |-> platform.result,
                  regulatory_compliance |-> regulatory_compliance,
                  legal_risks           |-> legal_risks,
                  compliance_score      |-> compliance_score,
                  overall_status        |->
                      IF DGeq(compliance_score,
                              DHex(1, -1, <<6, 6, 6, 6, 6, 6, 6, 6, 6, 6, 6, 6, 6>>))
                      THEN "approved" ELSE "rejected"],
             tos_cache |-> platform.tos_cache]
        Scored(platform, regulatory_compliance, legal_risks) ==
            Assessment(platform, regulatory_compliance, legal_risks,
                       ComplianceScore(platform.result.score,
                                       regulatory_compliance.score,
                                       legal_risks.risk_score))
    IN  Scored(CheckPlatformCompliance(method, session, tos_cache),
               regulatory, legal)

\* the methods handed to the agent: a dict with or without a platform, a
\* data_usage and a description, of the expected type or not
Absent == [absent |-> TRUE]

DictOf(fields) ==
    [k \in {j \in DOMAIN fields : "absent" \notin DOMAIN fields[j]} |-> fields[k]]

LegalMethodInputs ==
    LET PlatformInputs    == {Absent, Str("shopify"), Str("etsy"), None}
        DataUsageInputs   ==
            {Absent, Dict(EmptyDict),
             Dict([collects_personal_data |-> TRUE, stores_data |-> TRUE]),
             Str("all"), SetValue}
        DescriptionInputs ==
            {Absent, Str("user"), Str("payment"),
             Str("copy brand user save payment market sell")}
    IN  {DictOf([id |-> Str("method"), platform |-> p, data_usage |-> u,
                 description |-> d]) :
            p \in PlatformInputs, u \in DataUsageInputs, d \in DescriptionInputs}

\* calls of assess_method and check_platform_compliance.  A page is its
\* version number and the terms in its text; the session is None before
\* initialize(), or its get raises, or it answers; tos_cache is empty or
\* holds what an earlier call fetched.
LegalCalls ==
    LET PageInputs ==
            {[version |-> "2.1",
              terms   |-> {"automation", "prohibited", "api", "rate limit",
                           "data", "personal", "storage", "content", "spam"}],
             [terms |-> {}]}
        Answer(status, page) ==
            [kind |-> "response", status |-> status, text |-> page]
        SessionInputs ==
            {[kind |-> "none"], [kind |-> "raises"]}
            \cup {Answer(200, page) : page \in PageInputs}
            \cup {Answer(503, [terms |-> {}])}
        CacheInputs ==
            {EmptyDict,
             GetPlatformTos("shopify",
                            Answer(200, [version |-> "2.1",
                                         terms   |-> {"automation", "prohibited"}]),
                            EmptyDict).tos_cache}
    IN  {CallOf(op, [method |-> m, session |-> s, tos_cache |-> c]) :
            op \in {"assess_method", "check_platform_compliance"},
            m \in LegalMethodInputs, s \in SessionInputs, c \in CacheInputs}

LegalInit ==
    /\ CoreInit /\ HistInit /\ CtlInit
    /\ alloc = NoAlloc
    /\ vin = << >>
    /\ vout = NotDiscovered
    /\ agent \in LegalCalls

\* assessment = await agent.assess_method(method)
AssessMethodCall ==
    /\ agent.op = "assess_method"
    /\ ~agent.done
    /\ agent' = Returned(AssessMethod(agent.arg.method, agent.arg.session,
                                       agent.arg.tos_cache))
    /\ UNCHANGED <<coreVars, histVars, ctlVars, alloc, vin, vout>>

\* compliance = await agent.check_platform_compliance(method)
CheckPlatformComplianceCall ==
    /\ agent.op = "check_platform_compliance"
    /\ ~agent.done
    /\ agent' = Returned(CheckPlatformCompliance(agent.arg.method,
                                                  agent.arg.session,
                                                  agent.arg.tos_cache))
    /\ UNCHANGED <<coreVars, histVars, ctlVars, alloc, vin, vout>>

LegalNext ==
    \/ AssessMethodCall
    \/ CheckPlatformComplianceCall

SpecLegal == LegalInit /\ [][LegalNext]_vars

(***************************************************************************)
(* SwarmController.run: run_discovery_cycle of the core, then the methods  *)
(* of discover_methods and the for loop over them, then the sleep.  The    *)
(* whole while loop lies inside one try: an exception that reaches it is   *)
(* logged by the except of run, and run returns.  The lifecycle tasks are  *)
(* left out: the control flow of run does not depend on them.              *)
(***************************************************************************)
\* the dicts assess_method returns: the assessment of its try branch, for
\* the methods of LegalMethodInputs, and the dict of its except branch
LegalAssessments ==
    {AssessMethod(m, [kind |-> "raises"], EmptyDict).assessment :
        m \in LegalMethodInputs}
    \cup {[overall_status |-> "error", error |-> "error"]}

\* await self.meta_learning.run_discovery_cycle(): the cycle starts
RunDiscoveryCycle ==
    /\ ctl_run.pc \in {"start", "sleep"}
    /\ StartCycle
    /\ ctl_run' = [ctl_run EXCEPT !.pc = "cycle"]
    /\ UNCHANGED <<ctl_swarms, ctl_tasks, ctl_ev, ctl_calls, histVars, fnVars>>

\* patterns = await self.discovery_agent.discover_methods()
DiscoveredMethods == DiscoverMethods(ExampleMethods).validated

\* run_discovery_cycle returns and the methods are discovered: the for
\* loop starts, or with no method the sleep
RunDiscoverMethods(patterns) ==
    /\ ctl_run.pc = "cycle"
    /\ EndCycle
    /\ ctl_run' = [pc        |-> IF patterns = << >> THEN "sleep" ELSE "assess",
                   patterns  |-> [i \in 1..Len(patterns) |-> patterns[i].id],
                   evaluated |-> << >>,
                   raised    |-> FALSE]
    /\ UNCHANGED <<ctl_swarms, ctl_tasks, ctl_ev, ctl_calls, histVars, fnVars>>

\* legal_assessment = await self.legal_agent.assess_method(pattern), for
\* the next pattern of the for loop
RunAssessMethod ==
    /\ ctl_run.pc = "assess"
    /\ \E legal_assessment \in LegalAssessments :
          ctl_run' = [pc         |-> "gate",
                      patterns   |-> ctl_run.patterns,
                      evaluated  |-> Append(ctl_run.evaluated,
                                            ctl_run.patterns[Len(ctl_run.evaluated) + 1]),
                      raised     |-> FALSE,
                      assessment |-> legal_assessment]
    /\ UNCHANGED <<ctl_swarms, ctl_tasks, ctl_ev, ctl_calls>>
    /\ UNCHANGED <<coreVars, histVars, fnVars>>

\* if not legal_assessment['approved']: the lookup raises KeyError on a
\* dict without that key, the except of run logs it and run returns.  No
\* dict of assess_method has the key, so the gates and the deployment
\* after the lookup are not reached; they are taken as going on to the
\* next pattern, and after the last one to the sleep.
RunLegalGate ==
    /\ ctl_run.pc = "gate"
    /\ ctl_run' =
           IF "approved" \notin DOMAIN ctl_run.assessment
           THEN [pc        |-> "returned",
                 patterns  |-> ctl_run.patterns,
                 evaluated |-> ctl_run.evaluated,
                 raised    |-> TRUE]
           ELSE [pc        |-> IF ctl_run.evaluated = ctl_run.patterns
                               THEN "sleep" ELSE "assess",
                 patterns  |-> ctl_run.patterns,
                 evaluated |-> ctl_run.evaluated,
                 raised    |-> FALSE]
    /\ UNCHANGED <<ctl_swarms, ctl_tasks, ctl_ev, ctl_calls>>
    /\ UNCHANGED <<coreVars, histVars, fnVars>>

RunNext ==
    \/ RunDiscoveryCycle
    \/ Core(GenerateTemplate)
    \/ Core(DeployTestSwarm)
    \/ Core(TestPoll)
    \/ Core(TestTimeout)
    \/ Core(SunsetFailedTest)
    \/ Core(ScaleSuccessfulPattern)
    \/ RunDiscoverMethods(DiscoveredMethods)
    \/ RunAssessMethod
    \/ RunLegalGate

SpecRun == Init /\ [][RunNext]_vars

(***************************************************************************)
(* Properties of the lifecycle.                                            *)
(***************************************************************************)

\* C1: after the poll that observes profit >= 10.0 and roi >= 0.3 the tested
\* swarm itself is in status production (it is not left in status testing).
C1_TestedSwarmPromoted ==
    ev.op = "scale" =>
        /\ ev.id \in DOMAIN active_swarms
        /\ active_swarms[ev.id].status = "production"

\* C2: a test swarm whose window elapses without a poll meeting both
\* thresholds is sunset and gone from the registry, the cycle moves on to
\* the next pattern, and no swarm is ever created for its template;
\* production swarms are created only after a poll that met both.
C2_FailedTestSunset ==
    /\ ev.op = "sunset_test" =>
          /\ ev.id \notin DOMAIN active_swarms
          /\ ~(/\ DGeq(ev.metrics.profit, DInt(10))
               /\ DGeq(ev.metrics.roi, success_metrics.min_roi_threshold))
          /\ cyc.pc = "next"
          /\ cyc.template \in failed_tests
    /\ ev.op = "scale" =>
          /\ DGeq(ev.metrics.profit, DInt(10))
          /\ DGeq(ev.metrics.roi, success_metrics.min_roi_threshold)
          /\ cyc.template \notin failed_tests
    /\ \A id \in DOMAIN active_swarms :
          active_swarms[id].template \notin failed_tests

C2_Witness ==
    /\ ev.op = "sunset_test"
    /\ ev.id \notin DOMAIN active_swarms
    /\ DGeq(ev.metrics.profit, DInt(10))
    /\ failed_tests # {}

\* C3: in the loop of SwarmController too, a poll that observes roi < 0.3
\* leaves the polled swarm out of the registry, whatever the profit.
C3_LowRoiTerminates ==
    (ctl_ev.op = "poll" /\ DLess(ctl_ev.metrics.roi, ctl_roi_threshold)) =>
        ctl_ev.id \notin DOMAIN ctl_swarms

\* C4: a production poll with profit p > 0 puts a swarm under the spawn id
\* exactly when 0.7 * p >= 10.0, with the parent's template and budget
\* 0.7 * p; otherwise the poll adds nothing to the registry.
C4_SpawnIffReinvestmentCoversCost ==
    [][(ev'.op = "poll" /\ DGreater(ev'.metrics.profit, DZero)) =>
          LET budget == Reinvestment(ev'.metrics.profit)
              child  == SwarmId("spawn_swarm", Size(active_swarms))
          IN  IF DGeq(budget, DInt(10))
              THEN /\ DOMAIN active_swarms' = DOMAIN active_swarms \cup {child}
                   /\ active_swarms'[child].template =
                          active_swarms[ev'.id].template
                   /\ active_swarms'[child].budget = budget
                   /\ calls'[1] = Call("spawn", child, budget)
              ELSE /\ DOMAIN active_swarms' = DOMAIN active_swarms
                   /\ \A i \in 1..Len(calls') : calls'[i].c # "spawn"
                   /\ \A id \in DOMAIN active_swarms \ {ev'.id} :
                          active_swarms'[id] = active_swarms[id]]_vars

C4_Witness ==
    /\ ev.op = "poll"
    /\ ev.metrics = LowRoiMetrics
    /\ Len(calls) > 0
    /\ calls[1].c = "spawn"
    /\ calls[1].amount = DInt(10)
    /\ calls[1].id \in DOMAIN active_swarms
    /\ calls[1].id # ev.id

\* C5: a swarm that reinvests (its poll made the calls of the reinvestment
\* block) has been promoted to production.
C5_ReinvestsOnlyInProduction ==
    (ev.op = "poll" /\ calls # << >>) =>
        /\ ev.id \in DOMAIN active_swarms
        /\ active_swarms[ev.id].status = "production"

\* C6: the three shares of a profit p sum to exactly p.
C6_SharesSumToProfit ==
    alloc.done =>
        DPlus(DPlus(alloc.reinvestment, alloc.hunter), alloc.owner) = alloc.profit

\* C7: a sunset removes exactly the id it was given and changes no other
\* registry entry and no knowledge-graph entry; no step of the core deletes
\* or changes an entry of the knowledge graph.
C7_SunsetFrame ==
    [][/\ ev'.op \in {"sunset", "sunset_test"} =>
             /\ DOMAIN active_swarms' = DOMAIN active_swarms \ {ev'.id}
             /\ \A id \in DOMAIN active_swarms' :
                    active_swarms'[id] = active_swarms[id]
             /\ knowledge_graph' = knowledge_graph
       /\ \A t \in DOMAIN knowledge_graph :
             /\ t \in DOMAIN knowledge_graph'
             /\ knowledge_graph'[t] = knowledge_graph[t]]_vars

C7_Witness ==
    /\ ev.op = "sunset"
    /\ ev.id \notin DOMAIN active_swarms
    /\ Size(active_swarms) > 0
    /\ Size(knowledge_graph) > 0
    /\ \A t \in DOMAIN knowledge_graph :
           knowledge_graph[t].performance_history = << >>

\* C8: _sunset_swarm recovers compute cost + storage cost, a missing cost
\* (or component, or resource record) counting as 0; what was recovered is
\* handed to discovery funding before the registry entry is deleted (with
\* nothing recovered there is no funding call); the swarm is then gone.
C8_RecoveredValueRouted ==
    [][(ev'.op = "sunset_call" /\ ev'.id \in DOMAIN active_swarms) =>
          LET swarm == active_swarms[ev'.id]
              res == IF "resources" \in DOMAIN swarm
                     THEN swarm.resources ELSE EmptyDict
              compute_cost ==
                  IF "compute" \in DOMAIN res /\ "cost" \in DOMAIN res.compute
                  THEN res.compute.cost ELSE DZero
              storage_cost ==
                  IF "storage" \in DOMAIN res /\ "cost" \in DOMAIN res.storage
                  THEN res.storage.cost ELSE DZero
              Dollars(c) == IF c = DZero THEN 0
                            ELSE CHOOSE n \in 1..100 : DInt(n) = c
              expected == DInt(Dollars(compute_cost) + Dollars(storage_cost))
          IN  /\ calls' = IF expected = DZero
                          THEN <<Call("recover", ev'.id, expected),
                                 Call("del", ev'.id, DZero)>>
                          ELSE <<Call("recover", ev'.id, expected),
                                 Call("fund", ev'.id, expected),
                                 Call("del", ev'.id, DZero)>>
              /\ DOMAIN active_swarms' = DOMAIN active_swarms \ {ev'.id}]_vars

C8_Witness ==
    /\ ev.op = "sunset_call"
    /\ ev.id \notin DOMAIN active_swarms
    /\ calls = <<Call("recover", ev.id, DInt(80)),
                 Call("fund", ev.id, DInt(80)),
                 Call("del", ev.id, DZero)>>

\* C9: an id that a sunset has removed from the registry is never again the
\* id of an active swarm.
C9_NoResurrection == terminated \cap DOMAIN active_swarms = {}

\* C10: discover_patterns returns, in catalog order, exactly the patterns
\* that carry every required field at each of the four levels.
C10_ValidationGate ==
    vout.done =>
        vout.patterns =
            SelectSeq(vin,
                LAMBDA q :
                    /\ RequiredFields.top \subseteq DOMAIN q
                    /\ RequiredFields.metrics \subseteq DOMAIN q.success_metrics
                    /\ RequiredFields.implementation \subseteq DOMAIN q.implementation
                    /\ RequiredFields.compute \subseteq
                           DOMAIN q.implementation.compute_needs)

C10_Witness ==
    /\ vout.done
    /\ Len(vin) = 2
    /\ Len(vout.patterns) = 1
    /\ "storage" \notin DOMAIN vin[1].implementation.compute_needs
    /\ vout.patterns[1] = vin[2]

(***************************************************************************)
(* Properties of validation, compliance and template generation.           *)
(***************************************************************************)

\* C11: every method that discover_methods hands to the weighted scoring
\* has passed the structural completeness gate.
C11_ScoredOnlyAfterGate ==
    (agent.done /\ agent.op = "discover_methods") =>
        \A i \in 1..Len(agent.result.scored) :
            ValidatePattern(agent.result.scored[i])

C13_ScoreInUnitInterval ==
    (agent.done /\ agent.op = "validate_method") =>
        /\ DGeq(agent.result, DZero)
        /\ DGeq(DInt(1), agent.result)

\* C14: the verdict of assess_method on a method dict is 'approved' exactly
\* when compliance_score = 0.4 * platform score + 0.4 * regulatory score
\* + 0.2 * (1 - risk score) is at least 0.7, and 'rejected' otherwise.
C14_VerdictIffScoreAtLeastThreshold ==
    (agent.op = "assess_method" /\ agent.done) =>
        LET a          == agent.result.assessment
            four_tenth == DHex(1, -2, <<9, 9, 9, 9, 9, 9, 9, 9, 9, 9, 9, 9, 10>>)
            two_tenth  == DHex(1, -3, <<9, 9, 9, 9, 9, 9, 9, 9, 9, 9, 9, 9, 10>>)
            threshold  == DHex(1, -1, <<6, 6, 6, 6, 6, 6, 6, 6, 6, 6, 6, 6, 6>>)
            Score      == DPlus(DPlus(DMul(a.platform_compliance.score, four_tenth),
                                      DMul(a.regulatory_compliance.score, four_tenth)),
                                DMul(DSub(DInt(1), a.legal_risks.risk_score),
                                     two_tenth))
        IN  /\ a.compliance_score = Score
            /\ a.overall_status \in {"approved", "rejected"}
            /\ a.overall_status = "approved" <=> DGeq(Score, threshold)

\* an assessment approved one unit in the last place above 0.7
\* (0.75 * 0.4 + 1.0 * 0.4 + 0.0 * 0.2 = 0.7000000000000001)
C14_Witness ==
    /\ agent.op = "assess_method"
    /\ agent.done
    /\ agent.result.assessment.compliance_score
           = DHex(1, -1, <<6, 6, 6, 6, 6, 6, 6, 6, 6, 6, 6, 6, 7>>)
    /\ agent.result.assessment.overall_status = "approved"

\* C15: when the terms-of-service fetch fails or raises (the platform has
\* an endpoint, nothing is cached and the session is absent or its get
\* raises), check_platform_compliance returns without raising and with the
\* lowest platform score, 0, and the assessment of the method is 'rejected'.
C15_UnreachableOracleRejects ==
    LET method    == agent.arg.method
        attempted == /\ "platform" \in DOMAIN method
                     /\ IsStr(method["platform"])
                     /\ method["platform"].str \in
                           {"amazon", "shopify", "youtube", "medium"}
                     /\ method["platform"].str \notin DOMAIN agent.arg.tos_cache
        failed    == agent.arg.session.kind \in {"none", "raises"}
    IN  (agent.op \in {"assess_method", "check_platform_compliance"}
         /\ agent.done /\ attempted /\ failed) =>
            /\ agent.op = "check_platform_compliance" =>
                   agent.result.result.score = DZero
            /\ agent.op = "assess_method" =>
                   /\ agent.result.assessment.platform_compliance.score = DZero
                   /\ agent.result.assessment.overall_status = "rejected"

\* C16: a swarm is in the active registry only for a pattern that was
\* assessed as compliant and as profitable: every registered swarm carries
\* the approved assessment and the profitable analysis it was deployed
\* with (the 'legal_framework' and 'profit_model' of _deploy_swarm).
C16_DeployedOnlyIfCompliantAndProfitable ==
    \A id \in DOMAIN active_swarms :
        LET swarm == active_swarms[id]
        IN  /\ "legal_framework" \in DOMAIN swarm
            /\ swarm.legal_framework.overall_status = "approved"
            /\ "profit_model" \in DOMAIN swarm
            /\ IsProfitable(swarm.profit_model)

\* C17: the related patterns of a new entry are, for every entry already
\* in the knowledge graph and in scan order, one edge per matching kind:
\* same_type with score 0.8 for the same category, same_method with 0.9
\* for the same method, same_platform with 0.7 for the same platform.  An
\* entry sharing category and platform but not the method gives exactly
\* those two edges, an entry matching on no kind gives none, and there is
\* no other edge.
C17_OneEdgePerMatchingKind ==
    \A t \in DOMAIN knowledge_graph :
        LET new      == PatternById(knowledge_graph[t].pattern)
            related  == knowledge_graph[t].related_patterns
            Old(u)   == PatternById(knowledge_graph[u].pattern)
            Kinds    == {"same_type", "same_method", "same_platform"}
            Score(k) == CASE k = "same_type"     -> "0.8"
                          [] k = "same_method"   -> "0.9"
                          [] k = "same_platform" -> "0.7"
            Match(u, k) ==
                CASE k = "same_type"     -> Old(u).type = new.type
                  [] k = "same_method"   -> Old(u).method = new.method
                  [] k = "same_platform" ->
                        Old(u).implementation.platform = new.implementation.platform
            Count(u, k) ==
                Cardinality({i \in 1..Len(related) :
                                /\ related[i].id = u
                                /\ related[i].relationship = k})
            EdgesOf(u) ==
                SelectSeq(related, LAMBDA e : e.id = u)
        IN  /\ \A i \in 1..Len(related) :
                   /\ related[i].id \in 0..(t - 1)
                   /\ related[i].relationship \in Kinds
                   /\ related[i].similarity_score = Score(related[i].relationship)
            /\ \A i, j \in 1..Len(related) :
                   i < j => related[i].id <= related[j].id
            /\ \A u \in 0..(t - 1) :
                   /\ \A k \in Kinds :
                          Count(u, k) = IF Match(u, k) THEN 1 ELSE 0
                   /\ (Match(u, "same_type") /\ Match(u, "same_platform")
                          /\ ~Match(u, "same_method")) =>
                         EdgesOf(u) = <<Edge(u, "same_type", "0.8"),
                                        Edge(u, "same_platform", "0.7")>>
                   /\ (\A k \in Kinds : ~Match(u, k)) => EdgesOf(u) = << >>

\* the pattern of the test is added after an unrelated entry and an entry
\* sharing its category and platform: two edges, both to the latter
C17_Witness ==
    /\ Size(knowledge_graph) = 3
    /\ knowledge_graph[0].pattern = "gh_bot_001"
    /\ knowledge_graph[1].pattern = "pattern_001"
    /\ knowledge_graph[2].pattern = "test_001"
    /\ knowledge_graph[2].related_patterns
           = <<Edge(1, "same_type", "0.8"), Edge(1, "same_platform", "0.7")>>

\* C18: a template is created once per validated pattern: over any number
\* of discovery cycles the knowledge graph holds at most one template
\* entry for a given pattern id.
C18_OneTemplatePerPattern ==
    \A t, u \in DOMAIN knowledge_graph :
        knowledge_graph[t].pattern = knowledge_graph[u].pattern => t = u

\* C19: _assess_platform_risk returns a level among low, medium and high,
\* and for a pattern on twitter or facebook the level is 'high' with an
\* 'API changes' factor, whatever the automation level of the pattern.
C19_HighRiskPlatformStaysHigh ==
    (agent.op = "assess_platform_risk" /\ agent.done) =>
        LET implementation == Get(agent.arg, "implementation")
            risk           == agent.result
        IN  /\ risk.level \in {"low", "medium", "high"}
            /\ ("platform" \in DOMAIN implementation
                  /\ implementation["platform"] \in
                        {Str("twitter"), Str("facebook"),
                         Str("Twitter"), Str("Facebook")}) =>
                  /\ risk.level = "high"
                  /\ \E i \in 1..Len(risk.factors) :
                         risk.factors[i] = "Platform with history of API changes"

\* C20: a production poll whose metrics collection failed sees the zero
\* snapshot and the lifecycle loop continues: after the iteration of that
\* poll the swarm is still in the active registry and its task is still
\* there to poll it at the next interval.
C20_FailedPollKeepsSwarm ==
    (ev.op \in {"sunset", "sleep"} /\ ev.metrics = FailureMetrics) =>
        /\ ev.id \in DOMAIN active_swarms
        /\ BagIn(ev.id, tasks)

\* C21: an exception raised while run evaluates one method of a cycle does
\* not end the cycle's evaluation and does not end run: every method
\* discovered in the cycle is evaluated and run goes on to its sleep.
C21_FailureKeepsLoopRunning ==
    ctl_run.raised =>
        /\ ctl_run.evaluated = ctl_run.patterns
        /\ ctl_run.pc # "returned"

\* C22: a production poll whose discovery-funding or owner-payout call
\* failed still makes the other call and goes on to its ROI check, which
\* decides as after a poll without failure: with roi < 0.3 the swarm is
\* sunset and its task ends, otherwise swarm and task stay as they are.
C22_ForwardFailureKeepsLifecycle ==
    [][(/\ ev.op = "poll"
        /\ \E i \in 1..Len(calls) : calls[i].c \in {"fund_failed", "payout_failed"})
       => /\ \E i \in 1..Len(calls) : calls[i].c \in {"fund", "fund_failed"}
          /\ \E i \in 1..Len(calls) : calls[i].c \in {"payout", "payout_failed"}
          /\ ev'.id = ev.id
          /\ ev'.metrics = ev.metrics
          /\ IF DLess(ev.metrics.roi, success_metrics.min_roi_threshold)
             THEN /\ ev'.op = "sunset"
                  /\ ev.id \notin DOMAIN active_swarms'
                  /\ tasks' = tasks (-) SetToBag({ev.id})
             ELSE /\ ev'.op = "sleep"
                  /\ active_swarms' = active_swarms
                  /\ tasks' = tasks]_vars

C22_Witness ==
    /\ ev.op = "poll"
    /\ ev.metrics = LowRoiMetrics
    /\ \E i \in 1..Len(calls) : calls[i].c = "fund_failed"
    /\ \E i \in 1..Len(calls) : calls[i].c = "payout_failed"
    /\ running = [id |-> ev.id, metrics |-> ev.metrics]
    /\ BagIn(ev.id, tasks)
    /\ ev.id \in DOMAIN active_swarms

\* C23: when a production poll has inserted a child swarm, the snapshot
\* that triggered the spawn is in the performance history recorded for the
\* parent swarm (the performance_history of the knowledge-graph entry of its
\* template).
C23_SnapshotRecordedBeforeSpawn ==
    (ev.op = "poll" /\ \E i \in 1..Len(calls) : calls[i].c = "spawn") =>
        LET history ==
                knowledge_graph[active_swarms[ev.id].template].performance_history
        IN  \E k \in 1..Len(history) : history[k] = ev.metrics

\* C24: a lifecycle task whose entry is gone from active_swarms is not in
\* the middle of an iteration, and the only step it takes is the exit at the
\* top of its loop: it leaves the registry and the knowledge graph as they
\* are, makes no spawn, funding, payout or sunset call, and ends.
C24_CooperativeCancellation ==
    [][/\ running'.id # NoId => running'.id \in DOMAIN active_swarms'
       /\ \A id \in SwarmIds :
             (/\ BagIn(id, tasks)
              /\ id \notin DOMAIN active_swarms
              /\ ev'.id = id
              /\ ev'.op \in {"poll", "sunset", "sleep", "exit"}) =>
                 /\ ev'.op = "exit"
                 /\ active_swarms' = active_swarms
                 /\ knowledge_graph' = knowledge_graph
                 /\ calls' = << >>
                 /\ running' = NoTask
                 /\ tasks' = tasks (-) SetToBag({id})]_vars

C24_Witness ==
    /\ ev.op = "exit"
    /\ ev.id \notin DOMAIN active_swarms
    /\ ~BagIn(ev.id, tasks)
    /\ calls = << >>
    /\ Size(active_swarms) > 0

\* C25: a step of a lifecycle task (its poll with the reinvestment block,
\* its sunset check, its exit) leaves every registry entry that exists under
\* another id exactly as it was: still present and unchanged.
C25_RegistryPartitionedById ==
    [][ev'.op \in {"poll", "sunset", "sleep", "exit"} =>
          \A other \in DOMAIN active_swarms \ {ev'.id} :
              /\ other \in DOMAIN active_swarms'
              /\ active_swarms'[other] = active_swarms[other]]_vars

\* C26: the test of one pattern does not wait for the test window of
\* another: while the test swarm of a pattern is being monitored, no
\* pattern discovered in the same cycle is still waiting to be taken up.
C26_NoPatternWaitsForAnotherWindow ==
    cyc.pc \in {"monitor", "sleep"} =>
        \A j \in 1..Len(Discovered) : j <= cyc.idx

\* C27: ids are unique among live swarms: a step that inserts swarms
\* (_deploy_test_swarm, _scale_successful_pattern, _spawn_new_swarm) uses
\* only keys that are not in the registry, so the registry grows by the
\* number inserted, and no id is driven by two lifecycle tasks.
C27_SwarmIdsUnique ==
    [][/\ ev'.op = "deploy_test" => ev'.id \notin DOMAIN active_swarms
       /\ ev'.op = "scale" =>
              Size(active_swarms') = Size(active_swarms) + initial_swarms
       /\ (ev'.op = "poll" /\ calls' # << >> /\ calls'[1].c = "spawn") =>
              calls'[1].id \notin DOMAIN active_swarms
       /\ \A id \in SwarmIds : CopiesIn(id, tasks') <= 1]_vars

\* C28: every swarm in the registry is being looked after: it is the test
\* swarm the discovery cycle is monitoring (or about to scale or sunset), or
\* a lifecycle task is running for its id.
C28_EverySwarmMonitored ==
    \A id \in DOMAIN active_swarms :
        \/ BagIn(id, tasks)
        \/ cyc.swarm = id /\ cyc.pc \in {"monitor", "sleep", "scale", "sunset"}

C30_TemplateGenerationIsAppendOnly ==
    [][knowledge_graph' # knowledge_graph =>
          \E new \in DOMAIN knowledge_graph' \ DOMAIN knowledge_graph :
              /\ DOMAIN knowledge_graph' = DOMAIN knowledge_graph \cup {new}
              /\ \A t \in DOMAIN knowledge_graph :
                     /\ knowledge_graph'[t] = knowledge_graph[t]
                     /\ \A i \in 1..Len(knowledge_graph'[t].related_patterns) :
                            knowledge_graph'[t].related_patterns[i].id # new
              /\ knowledge_graph'[new].performance_history = << >>
              /\ \A i \in 1..Len(knowledge_graph'[new].related_patterns) :
                     /\ knowledge_graph'[new].related_patterns[i].id
                            \in DOMAIN knowledge_graph
                     /\ knowledge_graph'[new].related_patterns[i].id # new]_vars

\* a second template was generated for a pattern related to the first: the
\* new entry has edges, all to the first entry, which still has none
C30_Witness ==
    /\ Size(knowledge_graph) = 2
    /\ knowledge_graph[0].related_patterns = << >>
    /\ knowledge_graph[1].related_patterns # << >>
    /\ \A i \in 1..Len(knowledge_graph[1].related_patterns) :
           knowledge_graph[1].related_patterns[i].id = 0

====
